---- MODULE Spec2Model ----
(***************************************************************************)
(* Second Reality port: the demo interrupt server (core/dis.c), the part   *)
(* loader (core/part.c), the indexed-colour video state (core/video.c),    *)
(* the music position fields (audio/music.c) and the frame loop (main.c).  *)
(*                                                                         *)
(* Every C function is an operator from a state record to a state record,  *)
(* so that a handler that calls other functions is their composition, in   *)
(* the order of the source.  The record holds the program's fields and     *)
(* three observers: `ret' (the value the last call returned), `events'     *)
(* (the callbacks and steps of the operation in progress, in order) and    *)
(* `init_obs' (what a part's init callback saw when it was entered).       *)
(***************************************************************************)
EXTENDS Integers, Sequences, FiniteSets, TLC

(***************************************************************************)
(* Bounds of the model.                                                    *)
(***************************************************************************)
\* dis_frame_tick calls explored between two resets of total_frames
MaxFrames == 3
\* frames whose update returned zero explored in the frame-loop specification
LoopFrames == 8
\* do_scroll calls explored once ALKU scrolls: the 128 of the horizon fade-in
\* and the first of the credits
MaxScrollCalls == 140
\* dis_frame_tick calls explored between two transitions of the part loader
MaxPartFrames == 1
\* parts the client registers in the sequencer specification
MaxRegistered == 2

(***************************************************************************)
(* Program constants.                                                      *)
(***************************************************************************)
NULL == 0
DIS_VERSION == 256
DIS_MSG_AREA_SIZE == 64
DIS_MSG_AREA_COUNT == 4
DIS_COPPER_COUNT == 3
SYNC_FRAMES_PER_POINT == 600
SYNC_FRAMES_FIRST == 1080
SYNC_POINT_MAX == 8
PART_REGISTRY_MAX == 32
SR_PART_STATE_STOPPED == 0
SR_PART_STATE_INITIALIZING == 1
SR_PART_STATE_RUNNING == 2
SR_PART_STATE_CLEANUP == 3
VIDEO_MODE_13H == 0
VIDEO_MODE_X == 1
VIDEO_WIDTH == 320
VIDEO_HEIGHT_13H == 200
VIDEO_HEIGHT_X == 400
ALKU_PALETTE_SIZE == 768
ALKU_SCROLL_RATE == 9
PHASE_WAIT_SYNC1 == 0
PHASE_INTRO1 == 1
PHASE_WAIT_SYNC2 == 2
PHASE_INTRO2 == 3
PHASE_WAIT_SYNC3 == 4
PHASE_INTRO3 == 5
PHASE_WAIT_SYNC4 == 6
PHASE_HORIZON == 7
PHASE_CREDITS == 8
PHASE_DONE == 9
FB_SIZE == VIDEO_WIDTH * VIDEO_HEIGHT_X

\* The three part objects of the program (static sr_part_t structures).
ALKU == 1
TEST_PART_1 == 2
TEST_PART_2 == 3
Parts == {ALKU, TEST_PART_1, TEST_PART_2}
\* The parts a client of the part loader registers, in any order and number.
ClientParts == {ALKU, TEST_PART_1}

\* Input events: escape key down, space key down, any other event, no event.
KeyEvents == {"ESC", "SPACE", "OTHER", "NULL"}

\* What a part's update answers (non-zero: the part is done) and whether it
\* calls dis_waitb itself, as alku_update does in wait_frames.
Behaviours == [result : {0, 1}, waits : BOOLEAN]

\* Colour indices a render callback stores.
Pixels == {7}

\* What the decoder reports to the audio callback: <<order, row, position in
\* ms>>.  The intro seconds, the credits orders, and a looped module back at
\* its start.
DecoderReports ==
    {<<4, 0, 0>>, <<4, 47, 300>>, <<5, 0, 5500>>, <<6, 0, 10500>>,
     <<4, 0, 15500>>, <<5, 47, 15500>>, <<8, 0, 15500>>, <<13, 0, 21000>>}

\* total_frames at the start of a run of the sync specification: a part that
\* has just begun, and parts one frame before the first and the last sync point
\* of the frame-based schedule and one frame before the schedule runs past it.
SyncFrameStarts ==
    {0, SYNC_FRAMES_FIRST - 1,
     SYNC_FRAMES_FIRST + (SYNC_POINT_MAX - 1) * SYNC_FRAMES_PER_POINT - 1,
     SYNC_FRAMES_FIRST + SYNC_POINT_MAX * SYNC_FRAMES_PER_POINT - 1}

\* A transition callback the client may install (any non-NULL sr_part_transition_fn).
TRANSITION_FN == 1

\* A copper routine a part may install (any non-NULL dis_copper_fn).
COPPER_FN == 1

\* Palette entries the clients write, and the r, g, b they pass: 6-bit values,
\* among them 0, 32 and 63, and bytes above 63.
ColourIndices == {0, 255}
Colours == {<<0, 32, 63>>, <<63, 1, 31>>, <<64, 255, 128>>}

\* A whole palette handed to video_set_palette: every byte value occurs.
BytePalette == [k \in 0..767 |-> k % 256]

\* <<start, count>> of a video_set_palette_range call that runs past entry 255,
\* and the bytes of its buffer.
Ranges == {<<255, 2>>}
RangeData == [j \in 0..767 |-> 60 + (j % 6)]

\* Arguments of video_set_mode, video_set_start and video_set_hscroll.
ModeArgs == {-1, VIDEO_MODE_13H, VIDEO_MODE_X, 2}
StartOffsets == {0, VIDEO_WIDTH * VIDEO_HEIGHT_13H}
HscrollArgs == {6}

\* What convert_framebuffer_to_rgba may find behind the framebuffer array.
Beyond == {0, 255}

\* The horizon files ALKU may load, and what the decoder reports while ALKU
\* runs: the module past its intro, in the credits orders.
HorizonFiles == {1, 2}
AlkuReports == {<<8, 0, 15500>>}

\* The framebuffer is followed at these byte offsets: the first and last byte
\* of the 200-line window and the first and last byte of the rest of the
\* 400-line allocation.
FbProbes == {0, VIDEO_WIDTH * VIDEO_HEIGHT_13H - 1,
             VIDEO_WIDTH * VIDEO_HEIGHT_13H, FB_SIZE - 1}

\* What a client draws through video_get_framebuffer(): the byte at offset i.
Drawing == [i \in FbProbes |-> i % 197]

(***************************************************************************)
(* State.                                                                  *)
(***************************************************************************)
VARIABLES
    \* core/dis.c: dis_state
    exit_flag, frame_counter, total_frames, music_frame, msg_areas, copper,
    \* core/part.c: s_registry[0..s_registry_count-1], the parts' state fields
    s_registry, s_current_index, s_running, s_transition_callback, part_state,
    \* core/video.c: video_state
    framebuffer, palette, mode, palette_dirty,
    \* audio/music.c: music_state as the frame thread reads it
    mod, playing, position_seconds_x1000, current_order, current_row,
    \* main.c: CLI options, and the application's position: "boot" before
    \* init(), "run" between init() and cleanup(), "ended" after cleanup();
    \* quit is set once sapp_request_quit() has been called
    g_start_part, g_single_part, app, quit,
    \* audio/music.c, the two threads' positions: audio_pc is 0 outside the
    \* audio callback, 1 after its mod/playing test, 2 after its render;
    \* frame_pc is <<call, stage>> of the frame thread inside music_unload,
    \* music_load or music_shutdown, <<"idle", 0>> outside them and
    \* <<"off", 0>> once the audio device is shut down
    audio_pc, frame_pc,
    \* core/video.c, continued: an entry of rgba_lut and a pixel of rgba_staging
    \* are the four bytes <<r, g, b, a>> of the uint32_t, lowest byte first;
    \* rgba_staging is followed at the pixel positions FbProbes
    rgba_lut, rgba_staging, start_offset, hscroll, initialized,
    \* observers: the <<order, row>> pairs the player has held since the frame
    \* thread entered dis_musplus; the frame counts passed to the current
    \* part's update since it was started
    held, delta_sum,
    \* parts/alku/alku.c: the part's alku_state_t; and an observer, the init
    \* and cleanup callbacks invoked since the sequence was started, in order
    alku, calls,
    \* observer: do_scroll calls since ALKU set scroll_pos = 1
    scroll_calls,
    ticks,      \* dis_frame_tick calls since the counter was last consumed
    last_sync,  \* what dis_sync last returned since the part began, or -1
    ret,        \* return value of the last call
    events,     \* callbacks and steps of the last operation, in order
    init_obs,   \* what each init callback of the last operation saw on entry
    op          \* the last operation and its argument

disVars == <<exit_flag, frame_counter, total_frames, music_frame, msg_areas, copper>>
seqVars == <<s_registry, s_current_index, s_running, s_transition_callback, part_state>>
videoVars == <<framebuffer, palette, mode, palette_dirty, rgba_lut, rgba_staging, start_offset, hscroll, initialized>>
musicVars == <<mod, playing, position_seconds_x1000, current_order, current_row>>
mainVars == <<g_start_part, g_single_part, app, quit>>
threadVars == <<audio_pc, frame_pc>>
obsVars == <<ticks, last_sync, ret, events, init_obs, op, held, delta_sum, alku, calls, scroll_calls>>
vars == <<disVars, seqVars, videoVars, musicVars, mainVars, threadVars, obsVars>>

\* The program state as one record, the argument of every function below.
Cur ==
    [exit_flag |-> exit_flag, frame_counter |-> frame_counter,
     total_frames |-> total_frames, music_frame |-> music_frame,
     msg_areas |-> msg_areas, copper |-> copper,
     s_registry |-> s_registry, s_current_index |-> s_current_index,
     s_running |-> s_running, s_transition_callback |-> s_transition_callback,
     part_state |-> part_state,
     framebuffer |-> framebuffer, palette |-> palette, mode |-> mode,
     palette_dirty |-> palette_dirty,
     mod |-> mod, playing |-> playing,
     position_seconds_x1000 |-> position_seconds_x1000,
     current_order |-> current_order, current_row |-> current_row,
     g_start_part |-> g_start_part, g_single_part |-> g_single_part,
     app |-> app, quit |-> quit,
     audio_pc |-> audio_pc, frame_pc |-> frame_pc,
     rgba_lut |-> rgba_lut, rgba_staging |-> rgba_staging, start_offset |-> start_offset, hscroll |-> hscroll, initialized |-> initialized,
     held |-> held, delta_sum |-> delta_sum,
     alku |-> alku, calls |-> calls,
     scroll_calls |-> scroll_calls,
     ticks |-> ticks, last_sync |-> last_sync,
     ret |-> ret, events |-> <<>>, init_obs |-> <<>>]

\* The state after an operation: record s, reached by operation name(arg).
Commit(s, name, arg) ==
    /\ exit_flag' = s.exit_flag
    /\ frame_counter' = s.frame_counter
    /\ total_frames' = s.total_frames
    /\ music_frame' = s.music_frame
    /\ msg_areas' = s.msg_areas
    /\ copper' = s.copper
    /\ s_registry' = s.s_registry
    /\ s_current_index' = s.s_current_index
    /\ s_running' = s.s_running
    /\ s_transition_callback' = s.s_transition_callback
    /\ part_state' = s.part_state
    /\ framebuffer' = s.framebuffer
    /\ palette' = s.palette
    /\ mode' = s.mode
    /\ palette_dirty' = s.palette_dirty
    /\ mod' = s.mod
    /\ playing' = s.playing
    /\ position_seconds_x1000' = s.position_seconds_x1000
    /\ current_order' = s.current_order
    /\ current_row' = s.current_row
    /\ g_start_part' = s.g_start_part
    /\ g_single_part' = s.g_single_part
    /\ app' = s.app
    /\ quit' = s.quit
    /\ audio_pc' = s.audio_pc
    /\ frame_pc' = s.frame_pc
    /\ rgba_lut' = s.rgba_lut
    /\ rgba_staging' = s.rgba_staging
    /\ start_offset' = s.start_offset
    /\ hscroll' = s.hscroll
    /\ initialized' = s.initialized
    /\ held' = s.held
    /\ delta_sum' = s.delta_sum
    /\ alku' = s.alku
    /\ calls' = s.calls
    /\ scroll_calls' = s.scroll_calls
    /\ ticks' = s.ticks
    /\ last_sync' = s.last_sync
    /\ ret' = s.ret
    /\ events' = s.events
    /\ init_obs' = s.init_obs
    /\ op' = <<name, arg>>

Ev(kind, a, b) == [ev |-> kind, a |-> a, b |-> b]
Emit(s, kind, a, b) == [s EXCEPT !.events = Append(@, Ev(kind, a, b))]
Return(s, v) == [s EXCEPT !.ret = v]

Max(a, b) == IF a >= b THEN a ELSE b
Min(a, b) == IF a <= b THEN a ELSE b

(***************************************************************************)
(* audio/music.c: the fields the frame thread reads and the calls that     *)
(* write them.  The decoder is a black box: the position it reports is an  *)
(* input of the audio callback.                                            *)
(***************************************************************************)
MODULE_LOADED == 1
\* the pointer left in music_state.mod by openmpt_module_destroy: not NULL, and
\* the module it points to is gone
MODULE_DESTROYED == 2

music_unload(s) ==
    IF s.mod # NULL THEN [s EXCEPT !.playing = FALSE, !.mod = NULL] ELSE s

\* created: whether openmpt_module_create_from_memory2 returns a module
music_load(s, created) ==
    LET s1 == music_unload(s)
    IN  IF ~created THEN Return(s1, 0)
        ELSE Return([s1 EXCEPT !.mod = MODULE_LOADED, !.current_order = 0,
                               !.current_row = 0, !.position_seconds_x1000 = 0], 1)

\* music_shutdown: unloads the module and closes the audio device
music_shutdown(s) == music_unload(s)

music_play(s) == IF s.mod # NULL THEN [s EXCEPT !.playing = TRUE] ELSE s

music_pause(s) == [s EXCEPT !.playing = FALSE]

music_stop(s) ==
    IF s.mod # NULL
        THEN [s EXCEPT !.playing = FALSE, !.current_order = 0, !.current_row = 0,
                       !.position_seconds_x1000 = 0]
        ELSE s

\* music_set_position: seeks the decoder and stores order and row
music_set_position(s, order, row) ==
    IF s.mod # NULL THEN [s EXCEPT !.current_order = order, !.current_row = row]
    ELSE s

music_is_playing(s) == s.playing

\* seconds as milliseconds: (double)ms / 1000.0 is compared with 0.3, 5.5,
\* 10.5 and 15.5, which is the comparison of ms with 300, 5500, 10500, 15500
music_get_position_ms(s) == s.position_seconds_x1000

music_get_current_order(s) == s.current_order

music_get_current_row(s) == s.current_row

\* One run of the audio callback: the decoder renders, and reports order, row
\* and position_ms; `ended' when it rendered fewer frames than asked.
music_audio_callback(s, order, row, position_ms, ended) ==
    IF s.mod = NULL \/ ~s.playing THEN s
    ELSE [s EXCEPT !.playing = IF ended THEN FALSE ELSE @,
                   !.current_order = order, !.current_row = row,
                   !.position_seconds_x1000 = position_ms]

(***************************************************************************)
(* core/dis.c                                                              *)
(***************************************************************************)
NoCopper == [i \in 0..(DIS_COPPER_COUNT - 1) |-> NULL]

dis_version_keeps_counter(s) ==
    Return([s EXCEPT !.exit_flag = 0, !.total_frames = 0, !.last_sync = -1],
           DIS_VERSION)

dis_version(s) ==
    Return([s EXCEPT !.exit_flag = 0, !.frame_counter = 0, !.total_frames = 0,
                     !.ticks = 0, !.last_sync = -1],
           DIS_VERSION)

dis_partstart(s) == dis_version(s)

\* for (i = 0; i < DIS_COPPER_COUNT; i++) if (copper[i]) copper[i]();
\* the observer records the slot and the frame counter the routine finds
RECURSIVE copper_loop(_, _)
copper_loop(s, i) ==
    IF i >= DIS_COPPER_COUNT THEN s
    ELSE copper_loop(IF s.copper[i] # NULL
                        THEN Emit(s, "copper", i, s.frame_counter)
                        ELSE s,
                     i + 1)

dis_waitb_raw_counter(s) ==
    LET s1 == copper_loop(s, 0)
    IN  Return([s1 EXCEPT !.frame_counter = 0, !.ticks = 0], s1.frame_counter)

dis_waitb_zero_first(s) ==
    LET frames == IF s.frame_counter = 0 THEN 1 ELSE s.frame_counter
    IN  Return(copper_loop([s EXCEPT !.frame_counter = 0, !.ticks = 0], 0), frames)

dis_waitb(s) ==
    LET s1 == copper_loop(s, 0)
        frames == IF s1.frame_counter = 0 THEN 1 ELSE s1.frame_counter
    IN  Return([s1 EXCEPT !.frame_counter = 0, !.ticks = 0], frames)

dis_exit(s) == s.exit_flag

dis_setcopper_clamps(s, routine_number, routine) ==
    [s EXCEPT !.copper[Max(0, Min(routine_number, DIS_COPPER_COUNT - 1))] = routine]

dis_setcopper(s, routine_number, routine) ==
    IF routine_number < 0 \/ routine_number >= DIS_COPPER_COUNT
        THEN s
        ELSE [s EXCEPT !.copper[routine_number] = routine]

\* dis_msgarea: the area's index, or -1 for the NULL it returns for a bad number
dis_msgarea(areanumber) ==
    IF areanumber < 0 \/ areanumber >= DIS_MSG_AREA_COUNT THEN -1 ELSE areanumber

\* a client stores byte value at offset of the area dis_msgarea hands out
msg_store(s, areanumber, offset, value) ==
    IF dis_msgarea(areanumber) = -1 THEN s
    ELSE [s EXCEPT !.msg_areas[dis_msgarea(areanumber)][offset] = value]

\* dis_musplus once both loads are done: order * 64 + row
dis_musplus(s, order, row) == Return(s, order * 64 + row)

dis_frame_tick_counter_only(s) ==
    [s EXCEPT !.frame_counter = @ + 1, !.ticks = @ + 1]

dis_frame_tick(s) ==
    [s EXCEPT !.frame_counter = @ + 1, !.total_frames = @ + 1, !.ticks = @ + 1]

\* e: "ESC" (key down, escape), "SPACE" (key down, space), "OTHER", "NULL"
dis_handle_event(s, e) ==
    IF e = "NULL" THEN s
    ELSE IF e = "ESC" THEN [s EXCEPT !.exit_flag = 1] ELSE s

dis_sync_value_unclamped(s) ==
    IF music_is_playing(s)
        THEN LET pos == music_get_position_ms(s)
                 order == music_get_current_order(s)
             IN  IF pos < 300 THEN 0
                 ELSE IF pos < 5500 THEN 1
                 ELSE IF pos < 10500 THEN 2
                 ELSE IF pos < 15500 THEN 3
                 ELSE IF order >= 5 THEN order
                 ELSE 4
        ELSE LET frames == s.total_frames
             IN  IF frames < SYNC_FRAMES_FIRST THEN 0
                 ELSE 1 + (frames - SYNC_FRAMES_FIRST) \div SYNC_FRAMES_PER_POINT

dis_sync_value_loaded_reads_position(s) ==
    IF s.mod # NULL
        THEN LET pos == music_get_position_ms(s)
             IN  IF pos < 300 THEN 0
                 ELSE IF pos < 5500 THEN 1
                 ELSE IF pos < 10500 THEN 2
                 ELSE IF pos < 15500 THEN 3
                 ELSE 4
        ELSE LET frames == s.total_frames
             IN  IF frames < SYNC_FRAMES_FIRST THEN 0
                 ELSE Min(1 + (frames - SYNC_FRAMES_FIRST) \div SYNC_FRAMES_PER_POINT,
                          SYNC_POINT_MAX)

dis_sync_value(s) ==
    IF music_is_playing(s)
        THEN LET pos == music_get_position_ms(s)
                 order == music_get_current_order(s)
             IN  IF pos < 300 THEN 0
                 ELSE IF pos < 5500 THEN 1
                 ELSE IF pos < 10500 THEN 2
                 ELSE IF pos < 15500 THEN 3
                 ELSE IF order >= 8 THEN 8
                 ELSE IF order >= 7 THEN 7
                 ELSE IF order >= 6 THEN 6
                 ELSE IF order >= 5 THEN 5
                 ELSE 4
        ELSE LET frames == s.total_frames
             IN  IF frames < SYNC_FRAMES_FIRST THEN 0
                 ELSE Min(1 + (frames - SYNC_FRAMES_FIRST) \div SYNC_FRAMES_PER_POINT,
                          SYNC_POINT_MAX)

\* dis_sync, with the observer of the previous result updated by the caller
dis_sync(s) == Return(s, dis_sync_value(s))

dis_reset_keeps_copper(s) ==
    [s EXCEPT !.exit_flag = 0, !.frame_counter = 0, !.total_frames = 0, !.ticks = 0,
              !.last_sync = -1]

dis_reset_clears_messages(s) ==
    [s EXCEPT !.exit_flag = 0, !.frame_counter = 0, !.total_frames = 0,
              !.copper = NoCopper, !.ticks = 0, !.last_sync = -1,
              !.msg_areas = [k \in 0..(DIS_MSG_AREA_COUNT - 1) |->
                                [j \in 0..(DIS_MSG_AREA_SIZE - 1) |-> 0]]]

dis_reset(s) ==
    [s EXCEPT !.exit_flag = 0, !.frame_counter = 0, !.total_frames = 0,
              !.copper = NoCopper, !.ticks = 0, !.last_sync = -1]

(***************************************************************************)
(* core/video.c (the indexed framebuffer and the palette)                  *)
(***************************************************************************)
video_set_mode_unchecked(s, m) == [s EXCEPT !.mode = m]

video_set_mode(s, m) ==
    IF m = VIDEO_MODE_13H \/ m = VIDEO_MODE_X THEN [s EXCEPT !.mode = m] ELSE s

video_clear_window_only(s, color) ==
    [s EXCEPT !.framebuffer =
        [i \in FbProbes |-> IF i < VIDEO_WIDTH * VIDEO_HEIGHT_13H
                               THEN color ELSE s.framebuffer[i]]]

\* memset(framebuffer, color, FB_SIZE)
video_clear(s, color) ==
    [s EXCEPT !.framebuffer = [i \in FbProbes |-> IF i < FB_SIZE THEN color ELSE @[i]]]

video_set_palette(s, pal) == [s EXCEPT !.palette = pal, !.palette_dirty = 1]

video_set_color_bgr(s, index, r, g, b) ==
    [s EXCEPT !.palette[index * 3 + 0] = b,
              !.palette[index * 3 + 1] = g,
              !.palette[index * 3 + 2] = r,
              !.palette_dirty = 1]

video_set_color(s, index, r, g, b) ==
    [s EXCEPT !.palette[index * 3 + 0] = r,
              !.palette[index * 3 + 1] = g,
              !.palette[index * 3 + 2] = b,
              !.palette_dirty = 1]

\* for (i = 0; i < 256; i++) video_set_color((uint8_t)i, rgb[i]): the loop of
\* part_clear_video and of the test parts' init callbacks.  Call i stores
\* rgb[i] in bytes 3i, 3i+1, 3i+2, so the 256 calls store every byte.
set_color_loop(s, rgb) ==
    [s EXCEPT !.palette = [k \in 0..767 |-> rgb[k \div 3][(k % 3) + 1]],
              !.palette_dirty = 1]

Black == [i \in 0..255 |-> <<0, 0, 0>>]

\* memcpy(&palette[start * 3], data, count * 3) after the clamp of count;
\* data[j] is byte j of the caller's buffer
video_set_palette_range(s, start, count, data) ==
    LET cnt == IF start + count > 256 THEN 256 - start ELSE count
    IN  [s EXCEPT !.palette = [k \in 0..767 |->
                                   IF k >= start * 3 /\ k < start * 3 + cnt * 3
                                       THEN data[k - start * 3] ELSE @[k]],
                  !.palette_dirty = 1]

\* memcpy(palette, video_state.palette, 768): the caller's copy
video_get_palette(s) == [k \in 0..767 |-> s.palette[k]]

\* uint16_t offset, uint8_t pixels: the arguments as the parameters hold them
video_set_start(s, offset) == [s EXCEPT !.start_offset = offset % 65536]

video_set_hscroll(s, pixels) == [s EXCEPT !.hscroll = pixels % 256]

\* a | b on non-negative ints
RECURSIVE BitOr(_, _)
BitOr(a, b) ==
    IF a = 0 THEN b
    ELSE IF b = 0 THEN a
    ELSE (IF a % 2 = 1 \/ b % 2 = 1 THEN 1 ELSE 0) + 2 * BitOr(a \div 2, b \div 2)

rgba_channel_shift_only(c6) == (c6 * 4) % 256

\* uint8_t r = (r6 << 2) | (r6 >> 4): computed in int, stored in a uint8_t
rgba_channel(c6) == BitOr(c6 * 4, c6 \div 16) % 256

\* the channel of every byte a palette entry can hold
rgba_channels == [c6 \in 0..255 |-> rgba_channel(c6)]

\* rebuild_rgba_lut: 0xFF000000 | b << 16 | g << 8 | r, as bytes <<r, g, b, a>>
rebuild_rgba_lut(s) ==
    [Emit(s, "rebuild_rgba_lut", 0, 0) EXCEPT
        !.rgba_lut = [i \in 0..255 |-> <<rgba_channels[s.palette[i * 3 + 0]],
                                         rgba_channels[s.palette[i * 3 + 1]],
                                         rgba_channels[s.palette[i * 3 + 2]],
                                         255>>],
        !.palette_dirty = 0]

\* src[i] of convert_framebuffer_to_rgba, src = framebuffer + start_offset: a
\* followed byte of the framebuffer, or whatever is there (`beyond') when the
\* byte is not followed or lies at FB_SIZE and beyond, behind the array.
src_byte(s, i, beyond) ==
    IF s.start_offset + i \in FbProbes THEN s.framebuffer[s.start_offset + i]
    ELSE beyond

convert_framebuffer_to_rgba(s, beyond) ==
    LET height == IF s.mode = VIDEO_MODE_X THEN VIDEO_HEIGHT_X ELSE VIDEO_HEIGHT_13H
        pixel_count == VIDEO_WIDTH * height
    IN  [s EXCEPT !.rgba_staging =
            [i \in FbProbes |-> IF i < pixel_count
                                   THEN s.rgba_lut[src_byte(s, i, beyond)]
                                   ELSE @[i]]]

video_present_never_rebuilds(s, beyond) ==
    IF s.initialized = 0 THEN s
    ELSE Emit(convert_framebuffer_to_rgba(s, beyond), "present", 0, 0)

\* video_present: rebuilds the colour table when the palette changed, converts
\* and draws the frame
video_present(s, beyond) ==
    IF s.initialized = 0 THEN s
    ELSE LET s1 == IF s.palette_dirty # 0 THEN rebuild_rgba_lut(s) ELSE s
         IN  Emit(convert_framebuffer_to_rgba(s1, beyond), "present", 0, 0)

\* video_init: memset, mode 13h, grayscale palette, rebuild_rgba_lut
video_init(s) ==
    LET s1 == [s EXCEPT !.framebuffer = [i \in FbProbes |-> 0],
                        !.rgba_lut = [i \in 0..255 |-> <<0, 0, 0, 0>>],
                        !.rgba_staging = [i \in FbProbes |-> <<0, 0, 0, 0>>],
                        !.start_offset = 0, !.hscroll = 0, !.initialized = 0,
                        !.mode = VIDEO_MODE_13H,
                        !.palette_dirty = 1,
                        !.palette = [k \in 0..767 |-> (k \div 3) \div 4]]
    IN  [rebuild_rgba_lut(s1) EXCEPT !.initialized = 1]

(***************************************************************************)
(* The parts' callbacks (main.c test parts, parts/alku/alku.c).  What a    *)
(* callback does to the sequencer, the interrupt server and the video      *)
(* state is modelled; a part's own animation state is an input.            *)
(***************************************************************************)
\* parts/alku: alku_state_t in static storage, all zero.  horizon names the
\* horizon file whose palette was loaded (0: none); fade_src and fade_dst
\* name the palette they point to.
AlkuZero ==
    [horizon |-> 0, phase |-> 0, sub_phase |-> 0, frame_count |-> 0,
     fade_step |-> 0, fade_src |-> "NULL", fade_dst |-> "NULL",
     fade_active |-> 0, fade_pos |-> 0,
     fadepal |-> [k \in 0..767 |-> 0],
     scroll_pos |-> 0, page |-> 0, credits_index |-> 0]

Callbacks ==
    [p \in Parts |-> [init |-> TRUE, update |-> TRUE, render |-> TRUE, cleanup |-> TRUE]]

\* test_part_1_init: red/blue gradient
TestPalette1 ==
    [i \in 0..255 |-> <<IF i < 128 THEN (i * 63) \div 128 ELSE 0,
                        0,
                        IF i >= 128 THEN ((i - 128) * 63) \div 128 ELSE 0>>]

\* test_part_2_init: green/yellow gradient
TestPalette2 ==
    [i \in 0..255 |-> <<IF i >= 128 THEN ((i - 128) * 63) \div 128 ELSE 0,
                        (i * 63) \div 255,
                        0>>]

\* alku_init: dis_partstart, mode X, then the data files; on a load failure the
\* part marks itself stopped and returns, else it sets the black palette fade1
alku_init(s, load_ok) ==
    LET s1 == video_set_mode(dis_partstart(s), VIDEO_MODE_X)
    IN  IF ~load_ok
            THEN [Emit(s1, "state", ALKU, SR_PART_STATE_STOPPED)
                      EXCEPT !.part_state[ALKU] = SR_PART_STATE_STOPPED]
            ELSE video_set_palette(s1, [k \in 0..767 |-> 0])

\* part->init(part): the observer records what the callback finds on entry
part_init(s, p, load_ok) ==
    LET seen == [part |-> p, state |-> s.part_state[p],
                 index |-> s.s_current_index,
                 exit_flag |-> s.exit_flag, frame_counter |-> s.frame_counter,
                 total_frames |-> s.total_frames, copper |-> s.copper,
                 palette |-> s.palette, framebuffer |-> s.framebuffer,
                 mode |-> s.mode, at |-> Len(s.events) + 1]
        s1 == [Emit(s, "init", p, 0) EXCEPT !.init_obs = Append(@, seen)]
    IN  CASE p = ALKU -> alku_init(s1, load_ok)
          [] p = TEST_PART_1 -> set_color_loop(s1, TestPalette1)
          [] p = TEST_PART_2 -> set_color_loop(s1, TestPalette2)

\* part->update(part, frame_count) with the part's answer `result'; alku_update
\* answers 1 when dis_exit() and may call dis_waitb() in wait_frames
part_update(s, p, frame_count, beh) ==
    LET s1 == Emit(Emit(s, "update", p, frame_count),
                   "update_frames", s.total_frames, 0)
        s2 == IF p = ALKU
                 THEN IF dis_exit(s1) # 0 THEN Return(s1, 1)
                      ELSE Return(IF beh.waits THEN dis_waitb(s1) ELSE s1, beh.result)
                 ELSE Return(s1, beh.result)
    IN  Emit(s2, "updated", p, s2.ret)

\* part->render(part): the part stores colour index px in the window it draws,
\* 320x200 for the test parts, 320x400 for ALKU
part_render(s, p, px) ==
    LET lines == IF p = ALKU THEN VIDEO_HEIGHT_X ELSE VIDEO_HEIGHT_13H
    IN  [Emit(s, "render", p, 0) EXCEPT !.framebuffer =
            [i \in FbProbes |-> IF i < VIDEO_WIDTH * lines THEN px ELSE @[i]]]

\* part->cleanup(part)
part_cleanup(s, p) == Emit(s, "cleanup", p, 0)

(***************************************************************************)
(* parts/alku: the palettes alku_init_palettes derives from the horizon    *)
(* file, the two fades, the scroll and alku_update.  The text and horizon  *)
(* pixels the part draws are not followed.                                 *)
(***************************************************************************)
\* a / b of C on ints, b > 0: truncation toward zero
CDiv(a, b) == IF a >= 0 THEN a \div b ELSE -((-a) \div b)

\* state->palette as alku_load_horizon leaves it: the 768 bytes of file h
HorizonFile(h) ==
    [i \in 0..(ALKU_PALETTE_SIZE - 1) |->
        IF h = 1 THEN (i * 7 + 5) % 64 ELSE 63]

\* the shade colour (1, 2 or 3) of a text colour index
ShadeIdx(idx) == IF idx >= 192 THEN 3 ELSE IF idx >= 128 THEN 2 ELSE 1

\* state->fade2: black for the horizon colours, the shade for text colours
alku_fade2(h) ==
    [i \in 0..(ALKU_PALETTE_SIZE - 1) |->
        IF i \div 3 < 64 THEN 0
        ELSE HorizonFile(h)[ShadeIdx(i \div 3) * 3 + (i % 3)]]

\* state->palette2: the horizon colours, and the text shade over them
alku_palette2(h) ==
    [i \in 0..(ALKU_PALETTE_SIZE - 1) |->
        IF i \div 3 < 64 THEN HorizonFile(h)[i]
        ELSE LET t == HorizonFile(h)[ShadeIdx(i \div 3) * 3 + (i % 3)]
                 b == HorizonFile(h)[((i \div 3) % 64) * 3 + (i % 3)]
             IN  (t * 63 + b * (63 - t)) \div 64]

\* state->palette once colours 192-255 are the copy of colours 0-63
alku_palette(h) ==
    [i \in 0..(ALKU_PALETTE_SIZE - 1) |->
        IF i >= 192 * 3 THEN HorizonFile(h)[i - 192 * 3] ELSE HorizonFile(h)[i]]

\* state->picin, state->textin: 8.8 increments per step
alku_picin(h) ==
    [i \in 0..(ALKU_PALETTE_SIZE - 1) |-> CDiv((alku_palette(h)[i] - 0) * 256, 128)]

alku_textin(h) ==
    [i \in 0..(ALKU_PALETTE_SIZE - 1) |->
        CDiv((alku_palette2(h)[i] - alku_palette(h)[i]) * 256, 64)]

\* the palette a fade_src or fade_dst pointer names
AlkuPalette(a, name) ==
    CASE name = "fade1" -> [i \in 0..(ALKU_PALETTE_SIZE - 1) |-> 0]
      [] name = "fade2" -> alku_fade2(a.horizon)
      [] name = "palette" -> alku_palette(a.horizon)
      [] name = "palette2" -> alku_palette2(a.horizon)

start_lerp_fade(s, pal1, pal2) ==
    [s EXCEPT !.alku.fade_src = pal1, !.alku.fade_dst = pal2, !.alku.fade_step = 0]

\* tick_lerp_fade; the event records the step it found and what it returns
tick_lerp_fade(s) ==
    LET step == s.alku.fade_step
    IN  IF step >= 64 THEN Return(Emit(s, "tick_lerp_fade", step, 0), 0)
        ELSE LET src == AlkuPalette(s.alku, s.alku.fade_src)
                 dst == AlkuPalette(s.alku, s.alku.fade_dst)
                 pal == [i \in 0..(ALKU_PALETTE_SIZE - 1) |->
                            (src[i] * (64 - step) + dst[i] * step) \div 64]
                 s1 == [video_set_palette(s, pal) EXCEPT !.alku.fade_step = @ + 1]
                 r == IF step + 1 < 64 THEN 1 ELSE 0
             IN  Return(Emit(s1, "tick_lerp_fade", step, r), r)

start_incremental_fade(s, steps) ==
    [s EXCEPT !.alku.fade_active = steps, !.alku.fade_pos = 0]

\* tick_fade; the event records the steps left on entry and what it returns
tick_fade(s, increments) ==
    IF s.alku.fade_active <= 0 THEN Return(Emit(s, "tick_fade", s.alku.fade_active, 0), 0)
    ELSE LET pal == [i \in 0..(ALKU_PALETTE_SIZE - 1) |->
                        Min(Max(s.alku.fadepal[i] * 256 + increments[i], 0),
                            63 * 256) \div 256]
             s1 == video_set_palette([s EXCEPT !.alku.fadepal = pal], pal)
             s2 == [s1 EXCEPT !.alku.fade_active = @ - 1, !.alku.fade_pos = @ + 1]
             r == IF s2.alku.fade_active > 0 THEN 1 ELSE 0
         IN  Return(Emit(s2, "tick_fade", s.alku.fade_active, r), r)

\* do_scroll; scroll_pos & 3 is scroll_pos % 4 and page ^ 1 is 1 - page
do_scroll(s) ==
    LET s1 == [s EXCEPT !.alku.frame_count = @ + 1, !.scroll_calls = @ + 1]
    IN  IF s1.alku.frame_count < ALKU_SCROLL_RATE THEN Return(s1, 0)
        ELSE LET a == [s1.alku EXCEPT !.frame_count = @ - ALKU_SCROLL_RATE,
                                      !.scroll_pos = @ + 1, !.page = 1 - @]
                 s2 == video_set_start([s1 EXCEPT !.alku = a],
                                       a.scroll_pos \div 4 + a.page * 88)
             IN  Return(video_set_hscroll(s2, (a.scroll_pos % 4) * 2), 1)

wait_frames(s, frames) ==
    IF s.alku.frame_count < frames
        THEN Return(dis_waitb([s EXCEPT !.alku.frame_count = @ + 1]), 1)
        ELSE Return([s EXCEPT !.alku.frame_count = 0], 0)

\* case PHASE_WAIT_SYNC1, 2, 3 of alku_update: wait for music sync n
alku_wait_sync(s, n) ==
    IF dis_sync(s).ret >= n
        THEN [s EXCEPT !.alku.phase = @ + 1, !.alku.sub_phase = 0,
                       !.alku.frame_count = 0]
        ELSE s

\* case PHASE_INTRO1, 2, 3 of alku_update: fade in, display, fade out
alku_intro(s) ==
    CASE s.alku.sub_phase = 0 ->
             LET s1 == IF s.alku.frame_count = 0
                          THEN start_lerp_fade(s, "fade1", "fade2") ELSE s
                 s2 == tick_lerp_fade([s1 EXCEPT !.alku.frame_count = @ + 1])
             IN  IF s2.ret = 0
                     THEN [s2 EXCEPT !.alku.sub_phase = 1, !.alku.frame_count = 0]
                     ELSE s2
      [] s.alku.sub_phase = 1 ->
             LET s1 == wait_frames(s, 200)
             IN  IF s1.ret # 0 THEN s1
                 ELSE start_lerp_fade([s1 EXCEPT !.alku.sub_phase = 2],
                                      "fade2", "fade1")
      [] s.alku.sub_phase = 2 ->
             LET s1 == tick_lerp_fade(s)
             IN  IF s1.ret = 0
                     THEN [s1 EXCEPT !.alku.phase = @ + 1, !.alku.sub_phase = 0,
                                     !.alku.frame_count = 0]
                     ELSE s1
      [] OTHER -> s

\* case PHASE_CREDITS of alku_update
alku_credits(s) ==
    LET s1 == do_scroll(s)
        s2 == IF s1.alku.frame_count = 0 /\ s1.alku.credits_index < 5
                 THEN [start_incremental_fade(
                           [s1 EXCEPT !.alku.fadepal =
                                          AlkuPalette(s1.alku, "palette")], 64)
                          EXCEPT !.alku.credits_index = @ + 1]
                 ELSE s1
        s3 == IF s2.alku.fade_active > 0
                 THEN tick_fade(s2, alku_textin(s2.alku.horizon)) ELSE s2
        s4 == IF s3.alku.frame_count > 0
                 THEN [s3 EXCEPT !.alku.frame_count = @ - 1]
                 ELSE IF /\ s3.alku.credits_index <= 5
                         /\ s3.alku.scroll_pos % 2 = 0
                         /\ dis_sync(s3).ret >= 4 + s3.alku.credits_index
                     THEN [s3 EXCEPT !.alku.frame_count = 0]
                     ELSE s3
    IN  IF s4.alku.scroll_pos >= 320 THEN [s4 EXCEPT !.alku.phase = PHASE_DONE]
        ELSE s4

\* alku_update(part, frame_count)
alku_update(s) ==
    IF dis_exit(s) # 0 THEN Return(s, 1)
    ELSE CASE s.alku.phase = PHASE_WAIT_SYNC1 -> Return(alku_wait_sync(s, 1), 0)
           [] s.alku.phase = PHASE_WAIT_SYNC2 -> Return(alku_wait_sync(s, 2), 0)
           [] s.alku.phase = PHASE_WAIT_SYNC3 -> Return(alku_wait_sync(s, 3), 0)
           [] s.alku.phase \in {PHASE_INTRO1, PHASE_INTRO2, PHASE_INTRO3} ->
                  Return(alku_intro(s), 0)
           [] s.alku.phase = PHASE_WAIT_SYNC4 ->
                  IF dis_sync(s).ret >= 4
                      THEN LET s1 == [s EXCEPT !.alku.fadepal =
                                                   AlkuPalette(s.alku, "fade1")]
                               s2 == start_incremental_fade(s1, 128)
                           IN  Return([s2 EXCEPT !.alku.phase = PHASE_HORIZON,
                                                 !.alku.scroll_pos = 1,
                                                 !.alku.page = 1,
                                                 !.alku.frame_count = 0,
                                                 !.scroll_calls = 0], 0)
                      ELSE Return(s, 0)
           [] s.alku.phase = PHASE_HORIZON ->
                  LET s1 == do_scroll(tick_fade(s, alku_picin(s.alku.horizon)))
                  IN  IF s1.alku.fade_active <= 0
                          THEN Return([s1 EXCEPT !.alku.phase = PHASE_CREDITS,
                                                 !.alku.credits_index = 0,
                                                 !.alku.frame_count = 60], 0)
                          ELSE Return(s1, 0)
           [] s.alku.phase = PHASE_CREDITS -> Return(alku_credits(s), 0)
           [] OTHER -> Return(s, 1)


(***************************************************************************)
(* core/part.c                                                             *)
(***************************************************************************)
s_registry_count(s) == Len(s.s_registry)

\* s_registry[i], C index from 0
registry_at(s, i) == s.s_registry[i + 1]

\* part->state = v
set_state(s, p, v) == Emit([s EXCEPT !.part_state[p] = v], "state", p, v)

part_clear_video(s) ==
    Emit(video_clear(set_color_loop(s, Black), 0), "clear_video", 0, 0)

part_transition_swapped(s, from_index, to_index) ==
    LET s1 == IF s.s_transition_callback # NULL
                 THEN Emit(s, "transition_cb", to_index, from_index) ELSE s
        s2 == Emit(dis_reset(s1), "dis_reset", 0, 0)
    IN  part_clear_video(s2)

part_transition(s, from_index, to_index) ==
    LET s1 == IF s.s_transition_callback # NULL
                 THEN Emit(s, "transition_cb", from_index, to_index) ELSE s
        s2 == Emit(dis_reset(s1), "dis_reset", 0, 0)
    IN  part_clear_video(s2)

part_loader_init(s) ==
    [s EXCEPT !.s_registry = <<>>, !.s_current_index = -1, !.s_running = 0,
              !.s_transition_callback = NULL]

\* Initialize a part: state INITIALIZING, init, state RUNNING
\* (the same lines in part_loader_start and in part_loader_next)
enter_part(s, part, load_ok) ==
    IF part # NULL
        THEN LET s1 == set_state(s, part, SR_PART_STATE_INITIALIZING)
                 s2 == IF Callbacks[part].init THEN part_init(s1, part, load_ok) ELSE s1
             IN  set_state(s2, part, SR_PART_STATE_RUNNING)
        ELSE s

\* Cleanup a part: state CLEANUP, cleanup, state STOPPED
leave_part(s, part) ==
    IF part # NULL
        THEN LET s1 == set_state(s, part, SR_PART_STATE_CLEANUP)
                 s2 == IF Callbacks[part].cleanup THEN part_cleanup(s1, part) ELSE s1
             IN  set_state(s2, part, SR_PART_STATE_STOPPED)
        ELSE s

\* part_loader_shutdown leaves s_running as it was
part_loader_shutdown_keeps_running(s) ==
    LET s1 == IF s.s_running # 0 /\ s.s_current_index >= 0
                 /\ s.s_current_index < s_registry_count(s)
                 THEN LET part == registry_at(s, s.s_current_index)
                      IN  IF part # NULL /\ Callbacks[part].cleanup
                              THEN leave_part(s, part) ELSE s
                 ELSE s
    IN  [s1 EXCEPT !.s_registry = <<>>, !.s_current_index = -1]

part_loader_shutdown(s) ==
    LET s1 == IF s.s_running # 0 /\ s.s_current_index >= 0
                 /\ s.s_current_index < s_registry_count(s)
                 THEN LET part == registry_at(s, s.s_current_index)
                      IN  IF part # NULL /\ Callbacks[part].cleanup
                              THEN leave_part(s, part) ELSE s
                 ELSE s
    IN  [s1 EXCEPT !.s_registry = <<>>, !.s_current_index = -1, !.s_running = 0]

part_loader_register_prepends(s, part) ==
    IF part = NULL THEN Return(s, -1)
    ELSE IF s_registry_count(s) >= PART_REGISTRY_MAX THEN Return(s, -1)
    ELSE Return([s EXCEPT !.part_state[part] = SR_PART_STATE_STOPPED,
                          !.s_registry = <<part>> \o @],
                0)

part_loader_register_off_by_one(s, part) ==
    IF part = NULL THEN Return(s, -1)
    ELSE IF s_registry_count(s) > PART_REGISTRY_MAX THEN Return(s, -1)
    ELSE Return([s EXCEPT !.part_state[part] = SR_PART_STATE_STOPPED,
                          !.s_registry = Append(@, part)],
                0)

part_loader_register(s, part) ==
    IF part = NULL THEN Return(s, -1)
    ELSE IF s_registry_count(s) >= PART_REGISTRY_MAX THEN Return(s, -1)
    ELSE Return([s EXCEPT !.part_state[part] = SR_PART_STATE_STOPPED,
                          !.s_registry = Append(@, part)],
                0)

part_loader_start_sets_index_first(s, start_index, load_ok) ==
    LET s1 == [s EXCEPT !.s_current_index = start_index, !.s_running = 1]
    IN  IF start_index < 0 \/ start_index >= s_registry_count(s) THEN Return(s1, -1)
        ELSE Return(enter_part(part_transition(s1, -1, s1.s_current_index),
                               registry_at(s1, s1.s_current_index), load_ok), 0)

part_loader_start(s, start_index, load_ok) ==
    IF start_index < 0 \/ start_index >= s_registry_count(s) THEN Return(s, -1)
    ELSE LET s1 == [s EXCEPT !.s_current_index = start_index, !.s_running = 1]
             s2 == part_transition(s1, -1, s1.s_current_index)
         IN  Return(enter_part(s2, registry_at(s2, s2.s_current_index), load_ok), 0)

part_loader_next_init_first(s, load_ok) ==
    IF s.s_running = 0 \/ s.s_current_index < 0 THEN Return(s, -1)
    ELSE IF s.s_current_index + 1 >= s_registry_count(s)
        THEN Return([leave_part(s, registry_at(s, s.s_current_index))
                        EXCEPT !.s_running = 0, !.s_current_index = -1], -1)
        ELSE LET from_index == s.s_current_index
                 s1 == part_transition(s, from_index, from_index + 1)
                 s2 == enter_part(s1, registry_at(s1, from_index + 1), load_ok)
                 s3 == leave_part(s2, registry_at(s2, from_index))
             IN  Return([s3 EXCEPT !.s_current_index = from_index + 1], 0)

part_loader_next_keeps_running(s, load_ok) ==
    IF s.s_running = 0 \/ s.s_current_index < 0 THEN Return(s, -1)
    ELSE LET s1 == leave_part(s, registry_at(s, s.s_current_index))
             from_index == s1.s_current_index
             s2 == [s1 EXCEPT !.s_current_index = @ + 1]
         IN  IF s2.s_current_index >= s_registry_count(s2)
                 THEN Return(s2, -1)
                 ELSE LET s3 == part_transition(s2, from_index, s2.s_current_index)
                      IN  Return(enter_part(s3, registry_at(s3, s3.s_current_index),
                                            load_ok), 0)

part_loader_next_same_part(s, load_ok) ==
    IF s.s_running = 0 \/ s.s_current_index < 0 THEN Return(s, -1)
    ELSE LET s1 == leave_part(s, registry_at(s, s.s_current_index))
             from_index == s1.s_current_index
             s3 == part_transition(s1, from_index, s1.s_current_index)
         IN  Return(enter_part(s3, registry_at(s3, s3.s_current_index), load_ok), 0)

part_loader_next(s, load_ok) ==
    IF s.s_running = 0 \/ s.s_current_index < 0 THEN Return(s, -1)
    ELSE LET s1 == leave_part(s, registry_at(s, s.s_current_index))
             from_index == s1.s_current_index
             s2 == [s1 EXCEPT !.s_current_index = @ + 1]
         IN  IF s2.s_current_index >= s_registry_count(s2)
                 THEN Return([s2 EXCEPT !.s_running = 0, !.s_current_index = -1], -1)
                 ELSE LET s3 == part_transition(s2, from_index, s2.s_current_index)
                      IN  Return(enter_part(s3, registry_at(s3, s3.s_current_index),
                                            load_ok), 0)

part_loader_tick_ignores_result(s, beh, load_ok) ==
    IF s.s_running = 0 \/ s.s_current_index < 0
       \/ s.s_current_index >= s_registry_count(s) THEN s
    ELSE LET part == registry_at(s, s.s_current_index)
         IN  IF part = NULL \/ s.part_state[part] # SR_PART_STATE_RUNNING THEN s
             ELSE part_update(dis_waitb(s), part, dis_waitb(s).ret, beh)

part_loader_tick_waits_first(s, beh, load_ok) ==
    LET s1 == dis_waitb(s)
    IN  IF s.s_running = 0 \/ s.s_current_index < 0
           \/ s.s_current_index >= s_registry_count(s) THEN s1
        ELSE LET part == registry_at(s, s.s_current_index)
             IN  IF part = NULL \/ s.part_state[part] # SR_PART_STATE_RUNNING THEN s1
                 ELSE LET s2 == part_update(s1, part, s1.ret, beh)
                      IN  IF s2.ret # 0 THEN part_loader_next(s2, load_ok) ELSE s2

part_loader_tick(s, beh, load_ok) ==
    IF s.s_running = 0 \/ s.s_current_index < 0
       \/ s.s_current_index >= s_registry_count(s) THEN s
    ELSE LET part == registry_at(s, s.s_current_index)
         IN  IF part = NULL \/ s.part_state[part] # SR_PART_STATE_RUNNING THEN s
             ELSE LET s1 == dis_waitb(s)
                      frame_count == s1.ret
                  IN  IF Callbacks[part].update
                          THEN LET s2 == part_update(s1, part, frame_count, beh)
                               IN  IF s2.ret # 0 THEN part_loader_next(s2, load_ok)
                                   ELSE s2
                          ELSE s1

part_loader_render(s, px) ==
    IF s.s_running = 0 \/ s.s_current_index < 0
       \/ s.s_current_index >= s_registry_count(s) THEN s
    ELSE LET part == registry_at(s, s.s_current_index)
         IN  IF part = NULL \/ s.part_state[part] # SR_PART_STATE_RUNNING THEN s
             ELSE IF Callbacks[part].render THEN part_render(s, part, px) ELSE s

part_loader_current(s) ==
    IF s.s_running = 0 \/ s.s_current_index < 0
       \/ s.s_current_index >= s_registry_count(s) THEN NULL
    ELSE registry_at(s, s.s_current_index)

part_loader_get_index(s) == IF s.s_running = 0 THEN -1 ELSE s.s_current_index

part_loader_get_count(s) == s_registry_count(s)

part_loader_is_running(s) == s.s_running

part_loader_set_transition_callback(s, callback) ==
    [s EXCEPT !.s_transition_callback = callback]

(***************************************************************************)
(* Initial state: static storage, before main.c's init().                  *)
(***************************************************************************)
(***************************************************************************)
(* main.c                                                                  *)
(***************************************************************************)
\* the values -p can give g_start_part
StartParts == -1..3

sapp_request_quit(s) == [Emit(s, "quit", 0, 0) EXCEPT !.quit = 1]

\* init() up to the registration of the three parts; music_ok tells whether
\* the audio device and the module file were available
main_setup(s, music_ok) ==
    LET s1 == video_init(dis_version(s))
        s2 == IF music_ok THEN music_play(music_load(s1, TRUE)) ELSE s1
        s3 == part_loader_register(part_loader_init(s2), ALKU)
        s4 == part_loader_register(s3, TEST_PART_1)
    IN  part_loader_register(s4, TEST_PART_2)

\* init()
main_init(s, music_ok, load_ok) ==
    [part_loader_start(main_setup(s, music_ok), s.g_start_part, load_ok)
        EXCEPT !.app = "run"]

\* frame() renders before it updates
main_frame_render_first(s, beh, load_ok, px, beyond) ==
    LET s1 == Emit(dis_frame_tick(s), "dis_frame_tick", 0, 0)
    IN  IF dis_exit(s1) # 0 THEN sapp_request_quit(s1)
        ELSE IF part_loader_is_running(s1) = 0 THEN sapp_request_quit(s1)
        ELSE LET s2 == part_loader_render(Emit(s1, "part_loader_render", 0, 0), px)
                 s3 == part_loader_tick(Emit(s2, "part_loader_tick", 0, 0),
                                        beh, load_ok)
             IN  video_present(s3, beyond)

\* frame() presents before it updates and renders
main_frame_present_first(s, beh, load_ok, px, beyond) ==
    LET s1 == Emit(dis_frame_tick(s), "dis_frame_tick", 0, 0)
    IN  IF dis_exit(s1) # 0 THEN sapp_request_quit(s1)
        ELSE IF part_loader_is_running(s1) = 0 THEN sapp_request_quit(s1)
        ELSE LET s2 == part_loader_tick(Emit(video_present(s1, beyond),
                                             "part_loader_tick", 0, 0),
                                        beh, load_ok)
             IN  part_loader_render(Emit(s2, "part_loader_render", 0, 0), px)

\* frame(); the calls of dis_frame_tick, part_loader_tick and
\* part_loader_render are recorded as events where frame() makes them
main_frame(s, beh, load_ok, px, beyond) ==
    LET s1 == Emit(dis_frame_tick(s), "dis_frame_tick", 0, 0)
    IN  IF dis_exit(s1) # 0 THEN sapp_request_quit(s1)
        ELSE IF part_loader_is_running(s1) = 0 THEN sapp_request_quit(s1)
        ELSE LET current_part == part_loader_get_index(s1)
                 s1a == part_loader_tick(Emit(s1, "part_loader_tick", 0, 0),
                                         beh, load_ok)
                 s2 == part_loader_render(Emit(s1a, "part_loader_render", 0, 0), px)
             IN  IF s.g_single_part # 0 /\ part_loader_get_index(s2) # current_part
                     THEN sapp_request_quit(s2)
                     ELSE video_present(s2, beyond)

\* event()
main_event(s, e, load_ok) ==
    LET s1 == dis_handle_event(s, e)
    IN  IF e = "SPACE" THEN part_loader_next(s1, load_ok) ELSE s1

\* cleanup()
main_cleanup(s) ==
    [music_shutdown(part_loader_shutdown(s)) EXCEPT !.app = "ended"]

\* Static storage as the program starts, with CLI options start_part and
\* single_part, at a moment when total_frames is `frames'.
Boot(frames, start_part, single_part) ==
    [exit_flag |-> 0, frame_counter |-> 0, total_frames |-> frames,
     music_frame |-> 0,
     msg_areas |-> [k \in 0..(DIS_MSG_AREA_COUNT - 1) |->
                        [j \in 0..(DIS_MSG_AREA_SIZE - 1) |-> 0]],
     copper |-> NoCopper,
     s_registry |-> <<>>, s_current_index |-> -1, s_running |-> 0,
     s_transition_callback |-> NULL,
     part_state |-> [p \in Parts |-> SR_PART_STATE_STOPPED],
     framebuffer |-> [i \in FbProbes |-> 0], palette |-> [i \in 0..767 |-> 0],
     mode |-> VIDEO_MODE_13H, palette_dirty |-> 0,
     mod |-> NULL, playing |-> FALSE, position_seconds_x1000 |-> 0,
     current_order |-> 0, current_row |-> 0,
     g_start_part |-> start_part, g_single_part |-> single_part,
     app |-> "boot", quit |-> 0,
     audio_pc |-> 0, frame_pc |-> <<"idle", 0>>,
     rgba_lut |-> [i \in 0..255 |-> <<0, 0, 0, 0>>], rgba_staging |-> [i \in FbProbes |-> <<0, 0, 0, 0>>], start_offset |-> 0, hscroll |-> 0, initialized |-> 0,
     held |-> {}, delta_sum |-> 0,
     alku |-> AlkuZero, calls |-> <<>>,
     scroll_calls |-> 0,
     ticks |-> 0, last_sync |-> -1, ret |-> 0, events |-> <<>>, init_obs |-> <<>>]

\* The variables hold record s.
StateIs(s) ==
    /\ exit_flag = s.exit_flag
    /\ frame_counter = s.frame_counter
    /\ total_frames = s.total_frames
    /\ music_frame = s.music_frame
    /\ msg_areas = s.msg_areas
    /\ copper = s.copper
    /\ s_registry = s.s_registry
    /\ s_current_index = s.s_current_index
    /\ s_running = s.s_running
    /\ s_transition_callback = s.s_transition_callback
    /\ part_state = s.part_state
    /\ framebuffer = s.framebuffer
    /\ palette = s.palette
    /\ mode = s.mode
    /\ palette_dirty = s.palette_dirty
    /\ mod = s.mod
    /\ playing = s.playing
    /\ position_seconds_x1000 = s.position_seconds_x1000
    /\ current_order = s.current_order
    /\ current_row = s.current_row
    /\ g_start_part = s.g_start_part
    /\ g_single_part = s.g_single_part
    /\ app = s.app
    /\ quit = s.quit
    /\ audio_pc = s.audio_pc
    /\ frame_pc = s.frame_pc
    /\ rgba_lut = s.rgba_lut
    /\ rgba_staging = s.rgba_staging
    /\ start_offset = s.start_offset
    /\ hscroll = s.hscroll
    /\ initialized = s.initialized
    /\ held = s.held
    /\ delta_sum = s.delta_sum
    /\ alku = s.alku
    /\ calls = s.calls
    /\ scroll_calls = s.scroll_calls
    /\ ticks = s.ticks
    /\ last_sync = s.last_sync
    /\ ret = s.ret
    /\ events = s.events
    /\ init_obs = s.init_obs
    /\ op = <<"boot", 0>>

Init == StateIs(Boot(0, 0, 0))

(***************************************************************************)
(* Operations of the interrupt server, as a part or the frame driver calls  *)
(* them.                                                                   *)
(***************************************************************************)
DisFrameTick ==
    /\ total_frames < MaxFrames
    /\ Commit(dis_frame_tick(Cur), "dis_frame_tick", 0)

DisWaitb ==
    /\ Commit(dis_waitb(Cur), "dis_waitb", 0)

DisVersion ==
    /\ Commit(dis_version(Cur), "dis_version", 0)

DisPartstart ==
    /\ Commit(dis_partstart(Cur), "dis_partstart", 0)

DisReset ==
    /\ Commit(dis_reset(Cur), "dis_reset", 0)

DisSetCopper ==
    /\ \E n \in -1..DIS_COPPER_COUNT, f \in {NULL, COPPER_FN} :
           Commit(dis_setcopper(Cur, n, f), "dis_setcopper", n)

DisHandleEvent ==
    /\ \E e \in KeyEvents :
           Commit(dis_handle_event(Cur, e), "dis_handle_event", 0)

DisMsgarea ==
    /\ \E areanumber \in {-1, 0, DIS_MSG_AREA_COUNT - 1, DIS_MSG_AREA_COUNT} :
           Commit(Return(Cur, dis_msgarea(areanumber)), "dis_msgarea", areanumber)

NextDis ==
    \/ DisMsgarea
    \/ DisFrameTick
    \/ DisWaitb
    \/ DisVersion
    \/ DisPartstart
    \/ DisReset
    \/ DisSetCopper
    \/ DisHandleEvent

SpecDis == Init /\ [][NextDis]_vars

(***************************************************************************)
(* Sync points: the frame thread's music controls and dis_sync calls, the  *)
(* audio thread's callback, frame ticks and part boundaries.               *)
(***************************************************************************)
InitSync == \E frames \in SyncFrameStarts : StateIs(Boot(frames, 0, 0))

MusicLoad ==
    /\ \E created \in BOOLEAN :
           Commit(music_load(Cur, created), "music_load", 0)

MusicPlay ==
    /\ Commit(music_play(Cur), "music_play", 0)

MusicPause ==
    /\ Commit(music_pause(Cur), "music_pause", 0)

MusicStop ==
    /\ Commit(music_stop(Cur), "music_stop", 0)

MusicAudioCallback ==
    /\ \E report \in DecoderReports, ended \in BOOLEAN :
           Commit(music_audio_callback(Cur, report[1], report[2], report[3], ended),
                  "music_audio_callback", 0)

DisSync ==
    /\ Commit([dis_sync(Cur) EXCEPT !.last_sync = dis_sync(Cur).ret], "dis_sync", 0)

SyncFrameTick ==
    /\ ticks < MaxFrames
    /\ Commit(dis_frame_tick(Cur), "dis_frame_tick", 0)

NextSync ==
    \/ MusicLoad
    \/ MusicPlay
    \/ MusicPause
    \/ MusicStop
    \/ MusicAudioCallback
    \/ DisSync
    \/ SyncFrameTick
    \/ DisReset

SpecSync == InitSync /\ [][NextSync]_vars

(***************************************************************************)
(* Operations of the part loader, called in any order by a client.         *)
(***************************************************************************)
LoaderRegister ==
    /\ Len(s_registry) < MaxRegistered
    /\ \E part \in ClientParts \cup {NULL} :
           Commit(part_loader_register(Cur, part), "part_loader_register", part)

LoaderStart ==
    /\ \E start_index \in -1..MaxRegistered, load_ok \in BOOLEAN :
           Commit(part_loader_start(Cur, start_index, load_ok),
                  "part_loader_start", start_index)

LoaderTick ==
    /\ \E beh \in Behaviours, load_ok \in BOOLEAN :
           Commit(part_loader_tick(Cur, beh, load_ok), "part_loader_tick", 0)

LoaderRender ==
    /\ \E px \in Pixels :
           Commit(part_loader_render(Cur, px), "part_loader_render", 0)

LoaderNext ==
    /\ \E load_ok \in BOOLEAN :
           Commit(part_loader_next(Cur, load_ok), "part_loader_next", 0)

LoaderSetTransitionCallback ==
    /\ \E callback \in {NULL, TRANSITION_FN} :
           Commit(part_loader_set_transition_callback(Cur, callback),
                  "part_loader_set_transition_callback", callback)

PartFrameTick ==
    /\ total_frames < MaxPartFrames
    /\ Commit(dis_frame_tick(Cur), "dis_frame_tick", 0)

Next ==
    \/ LoaderRegister
    \/ LoaderStart
    \/ LoaderTick
    \/ LoaderRender
    \/ LoaderNext
    \/ LoaderSetTransitionCallback
    \/ PartFrameTick

Spec == Init /\ [][Next]_vars

(***************************************************************************)
(* The sequencer with its whole interface: a client may also initialise    *)
(* the loader again and shut it down, at any moment.                       *)
(***************************************************************************)
LoaderInit ==
    /\ Commit(part_loader_init(Cur), "part_loader_init", 0)

LoaderShutdown ==
    /\ Commit(part_loader_shutdown(Cur), "part_loader_shutdown", 0)

NextQueries ==
    \/ LoaderInit
    \/ LoaderRegister
    \/ LoaderStart
    \/ LoaderTick
    \/ LoaderNext
    \/ LoaderShutdown

SpecQueries == Init /\ [][NextQueries]_vars

(***************************************************************************)
(* Message areas: a client writes through dis_msgarea while parts start    *)
(* and end.  The parts are the three main.c registers.                     *)
(***************************************************************************)
MsgBytes == {255}

InitRegistered == StateIs([main_setup(Boot(0, 0, 0), FALSE) EXCEPT !.app = "run"])

MsgStore ==
    /\ \E areanumber \in {-1, 0, DIS_MSG_AREA_COUNT - 1, DIS_MSG_AREA_COUNT},
          offset \in {0, DIS_MSG_AREA_SIZE - 1}, value \in MsgBytes :
           Commit(msg_store(Cur, areanumber, offset, value), "msg_store", areanumber)

NextMsg ==
    \/ MsgStore
    \/ DisReset
    \/ DisVersion
    \/ DisPartstart
    \/ LoaderStart
    \/ LoaderNext
    \/ LoaderTick

SpecMsg == InitRegistered /\ [][NextMsg]_vars

(***************************************************************************)
(* Transitions: parts and clients leave the counters, the copper table,    *)
(* the palette, the framebuffer and the mode in any condition before the   *)
(* loader enters a part.  A transition callback is installed.              *)
(***************************************************************************)
InitTransition ==
    StateIs([part_loader_set_transition_callback(
                 main_setup(Boot(0, 0, 0), FALSE), TRANSITION_FN)
             EXCEPT !.app = "run"])

CopperInstall ==
    /\ Commit(dis_setcopper(Cur, DIS_COPPER_COUNT - 1, COPPER_FN),
              "dis_setcopper", DIS_COPPER_COUNT - 1)

VideoSetColor ==
    /\ Commit(video_set_color(Cur, 0, 63, 63, 63), "video_set_color", 0)

VideoSetMode ==
    /\ \E m \in {VIDEO_MODE_13H, VIDEO_MODE_X} :
           Commit(video_set_mode(Cur, m), "video_set_mode", m)

NextTransition ==
    \/ LoaderStart
    \/ LoaderNext
    \/ LoaderTick
    \/ LoaderRender
    \/ PartFrameTick
    \/ CopperInstall
    \/ VideoSetColor
    \/ VideoSetMode

SpecTransition == InitTransition /\ [][NextTransition]_vars

(***************************************************************************)
(* The application: init(), then frame() and event() in any order until a  *)
(* quit is requested, then cleanup().                                      *)
(***************************************************************************)
\* The observer of the frame counts: the sum of the frame counts passed to
\* update up to position n of es, since the last init callback before n, or,
\* when there is none, on top of the sum pre_sum of the previous operations.
RECURSIVE SumOfCounts(_, _)
SumOfCounts(es, ks) ==
    IF ks = {} THEN 0
    ELSE LET k == CHOOSE x \in ks : TRUE
         IN  es[k].b + SumOfCounts(es, ks \ {k})

DeltasUpTo(pre_sum, es, n) ==
    LET inits == {j \in 1..n : es[j].ev = "init"}
        from == IF inits = {} THEN 0
                ELSE CHOOSE j \in inits : \A i \in inits : i <= j
    IN  (IF inits = {} THEN pre_sum ELSE 0)
        + SumOfCounts(es, {j \in (from + 1)..n : es[j].ev = "update"})

Observed(s) == [s EXCEPT !.delta_sum = DeltasUpTo(@, s.events, Len(s.events))]

InitMain ==
    \E start_part \in StartParts, single_part \in {0, 1} :
        StateIs(Boot(0, start_part, single_part))

MainInit ==
    /\ app = "boot"
    /\ \E music_ok \in BOOLEAN, load_ok \in BOOLEAN :
           Commit(Observed(main_init(Cur, music_ok, load_ok)), "init", 0)

MainFrame ==
    /\ app = "run" /\ quit = 0
    /\ total_frames < MaxFrames
    /\ \E beh \in Behaviours, load_ok \in BOOLEAN, px \in Pixels, beyond \in Beyond :
           Commit(Observed(main_frame(Cur, beh, load_ok, px, beyond)), "frame", 0)

MainEvent ==
    /\ app = "run" /\ quit = 0
    /\ \E e \in KeyEvents \ {"NULL"}, load_ok \in BOOLEAN :
           Commit(Observed(main_event(Cur, e, load_ok)), "event", 0)

MainCleanup ==
    /\ app = "run" /\ quit = 1
    /\ Commit(main_cleanup(Cur), "cleanup", 0)

NextMain ==
    \/ MainInit
    \/ MainFrame
    \/ MainEvent
    \/ MainCleanup

SpecMain == InitMain /\ [][NextMain]_vars

(***************************************************************************)
(* Filling the registry: a client registers its first parts, then one part *)
(* again and again until the registry refuses.                             *)
(***************************************************************************)
RegistryFill ==
    /\ \E part \in {NULL, TEST_PART_2} :
           Commit(part_loader_register(Cur, part), "part_loader_register", part)

NextRegistry ==
    \/ LoaderRegister
    \/ RegistryFill

SpecRegistry == Init /\ [][NextRegistry]_vars

(***************************************************************************)
(* The audio thread against the frame thread (audio/music.c).  The audio   *)
(* callback and music_unload, music_load and music_shutdown run one store  *)
(* or one library call at a time, in any interleaving; nothing in the code *)
(* makes either wait for the other, except that saudio_shutdown joins the  *)
(* audio thread.  Every use of the module by the callback is recorded with *)
(* the value music_state.mod has at that moment.                           *)
(***************************************************************************)
FrameIdle == frame_pc = <<"idle", 0>>

\* where the frame thread is when music_unload returns to its caller
AfterUnload(caller) ==
    IF caller = "music_unload" THEN <<"idle", 0>> ELSE <<caller, 3>>

\* if (!music_state.mod || !atomic_load(&playing)) { silence; return; }
AudioCheck ==
    /\ audio_pc = 0 /\ frame_pc[1] # "off"
    /\ Commit([Cur EXCEPT !.audio_pc = IF mod = NULL \/ ~playing THEN 0 ELSE 1],
              "audio_check", 0)

\* openmpt_module_read_interleaved_float_stereo(music_state.mod, ...)
AudioRender ==
    /\ audio_pc = 1
    /\ \E ended \in BOOLEAN :
           Commit([Emit(Cur, "module_use", mod, 0) EXCEPT
                       !.playing = IF ended THEN FALSE ELSE @,
                       !.audio_pc = 2],
                  "audio_render", 0)

\* the position queries on music_state.mod and the atomic stores
AudioPublish ==
    /\ audio_pc = 2
    /\ \E report \in DecoderReports :
           Commit([Emit(Cur, "module_use", mod, 1) EXCEPT
                       !.current_order = report[1], !.current_row = report[2],
                       !.position_seconds_x1000 = report[3],
                       !.held = IF frame_pc[1] = "dis_musplus"
                                   THEN @ \cup {<<report[1], report[2]>>} ELSE @,
                       !.audio_pc = 0],
                  "audio_publish", 0)

\* music_unload entered from one of its callers: if (mod) playing = false
FrameUnloadBegin ==
    /\ FrameIdle
    /\ \E caller \in {"music_unload", "music_load", "music_shutdown"} :
           Commit(IF mod # NULL
                      THEN [Cur EXCEPT !.playing = FALSE, !.frame_pc = <<caller, 1>>]
                      ELSE [Cur EXCEPT !.frame_pc = AfterUnload(caller)],
                  "music_unload", 0)

\* openmpt_module_destroy(music_state.mod)
FrameUnloadDestroy ==
    /\ frame_pc[2] = 1
    /\ Commit([Cur EXCEPT !.mod = MODULE_DESTROYED, !.frame_pc = <<frame_pc[1], 2>>],
              "openmpt_module_destroy", 0)

\* music_state.mod = NULL
FrameUnloadClear ==
    /\ frame_pc[2] = 2
    /\ Commit([Cur EXCEPT !.mod = NULL, !.frame_pc = AfterUnload(frame_pc[1])],
              "music_unload_clear", 0)

\* music_load after its music_unload: create the module, reset the position
FrameLoadCreate ==
    /\ frame_pc = <<"music_load", 3>>
    /\ \E created \in BOOLEAN :
           Commit(IF created
                      THEN [Cur EXCEPT !.mod = MODULE_LOADED, !.current_order = 0,
                                       !.current_row = 0,
                                       !.position_seconds_x1000 = 0,
                                       !.frame_pc = <<"idle", 0>>]
                      ELSE [Cur EXCEPT !.frame_pc = <<"idle", 0>>],
                  "music_load", 0)

\* music_shutdown after its music_unload: saudio_shutdown returns once the
\* audio thread is outside the callback
FrameShutdownAudio ==
    /\ frame_pc = <<"music_shutdown", 3>> /\ audio_pc = 0
    /\ Commit([Cur EXCEPT !.frame_pc = <<"off", 0>>], "music_shutdown", 0)

FramePlay ==
    /\ FrameIdle
    /\ Commit(music_play(Cur), "music_play", 0)

NextAudio ==
    \/ AudioCheck
    \/ AudioRender
    \/ AudioPublish
    \/ FrameUnloadBegin
    \/ FrameUnloadDestroy
    \/ FrameUnloadClear
    \/ FrameLoadCreate
    \/ FrameShutdownAudio
    \/ FramePlay

SpecAudio == Init /\ [][NextAudio]_vars

(***************************************************************************)
(* The palette and its RGBA table (SpecPalette), and the mode, the start   *)
(* offset and the conversion of the framebuffer (SpecVideo).  Both begin   *)
(* after video_init.                                                       *)
(***************************************************************************)
InitVideo == StateIs(video_init(Boot(0, 0, 0)))

PaletteSetColor ==
    /\ \E index \in ColourIndices, c \in Colours :
           Commit(video_set_color(Cur, index, c[1], c[2], c[3]),
                  "video_set_color", index)

PaletteSet ==
    /\ Commit(video_set_palette(Cur, BytePalette), "video_set_palette", 0)

PaletteSetRange ==
    /\ \E range \in Ranges :
           Commit(video_set_palette_range(Cur, range[1], range[2], RangeData),
                  "video_set_palette_range", range[1])

VideoPresent ==
    /\ \E beyond \in Beyond :
           Commit(video_present(Cur, beyond), "video_present", 0)

NextPalette ==
    \/ PaletteSetColor
    \/ PaletteSet
    \/ PaletteSetRange
    \/ VideoPresent

SpecPalette == InitVideo /\ [][NextPalette]_vars

VideoSetModeArg ==
    /\ \E m \in ModeArgs :
           Commit(video_set_mode(Cur, m), "video_set_mode", m)

VideoSetStart ==
    /\ \E offset \in StartOffsets :
           Commit(video_set_start(Cur, offset), "video_set_start", offset)

VideoSetHscroll ==
    /\ \E pixels \in HscrollArgs :
           Commit(video_set_hscroll(Cur, pixels), "video_set_hscroll", pixels)

\* stores through video_get_framebuffer()
VideoDraw ==
    /\ Commit([Cur EXCEPT !.framebuffer = Drawing], "draw", 0)

VideoClear ==
    /\ \E px \in Pixels :
           Commit(video_clear(Cur, px), "video_clear", px)

NextVideo ==
    \/ VideoSetModeArg
    \/ VideoSetStart
    \/ VideoSetHscroll
    \/ VideoDraw
    \/ VideoClear
    \/ VideoSetColor
    \/ VideoPresent

SpecVideo == InitVideo /\ [][NextVideo]_vars

(***************************************************************************)
(* The frame loop from part_loader_start(0) to the end of the sequence     *)
(* (SpecLoop): frame() is called again and again, and a part's update      *)
(* answers 0 for at most MaxFrames frames.                                 *)
(***************************************************************************)
\* the observer of the init and cleanup callbacks
Logged(s) ==
    [s EXCEPT !.calls = @ \o SelectSeq(s.events,
                                       LAMBDA e : e.ev \in {"init", "cleanup"})]

InitLoop ==
    \E music_ok \in BOOLEAN, load_ok \in BOOLEAN :
        StateIs(Logged(main_init(Boot(0, 0, 0), music_ok, load_ok)))

LoopFrame ==
    /\ app = "run" /\ quit = 0
    /\ total_frames < LoopFrames
    /\ \E waits \in BOOLEAN, load_ok \in BOOLEAN, px \in Pixels, beyond \in Beyond :
           \E n \in {Logged(main_frame(Cur, [result |-> 0, waits |-> waits],
                                       load_ok, px, beyond))} :
               Commit(n, "frame", 0)

LoopFrameDone ==
    /\ app = "run" /\ quit = 0
    /\ \E waits \in BOOLEAN, load_ok \in BOOLEAN, px \in Pixels, beyond \in Beyond :
           \E n \in {Logged(main_frame(Cur, [result |-> 1, waits |-> waits],
                                       load_ok, px, beyond))} :
               Commit(n, "frame", s_current_index + 1)

NextLoop ==
    \/ LoopFrame
    \/ LoopFrameDone

\* The step of NextLoop that is a frame whose update returned non-zero:
\* LoopFrameDone records the part it ended (1 + its index), so the step is
\* told apart from the frames before it by op alone, and it is possible
\* exactly when the frame loop is still being called.
UpdateEnds == app = "run" /\ quit = 0 /\ op' = <<"frame", s_current_index + 1>>

\* The host keeps calling frame() until it is asked to quit, and every
\* part's update eventually returns non-zero.
SpecLoop == InitLoop /\ [][NextLoop]_vars /\ WF_op(UpdateEnds)

(***************************************************************************)
(* dis_musplus on the frame thread against the audio callback: the frame   *)
(* thread loads the order, then the row; the callback may run in between.  *)
(***************************************************************************)
InitMusplus == StateIs(music_play(music_load(Boot(0, 0, 0), TRUE)))

\* int order = music_get_current_order();
MusplusReadOrder ==
    /\ FrameIdle
    /\ Commit([Cur EXCEPT !.frame_pc = <<"dis_musplus", music_get_current_order(Cur)>>,
                          !.held = {<<current_order, current_row>>}],
              "dis_musplus_order", 0)

\* int row = music_get_current_row(); return order * 64 + row;
MusplusReadRow ==
    /\ frame_pc[1] = "dis_musplus"
    /\ Commit([dis_musplus(Cur, frame_pc[2], music_get_current_row(Cur))
                   EXCEPT !.frame_pc = <<"idle", 0>>],
              "dis_musplus", 0)

NextMusplus ==
    \/ AudioCheck
    \/ AudioRender
    \/ AudioPublish
    \/ MusplusReadOrder
    \/ MusplusReadRow

SpecMusplus == InitMusplus /\ [][NextMusplus]_vars

(***************************************************************************)
(* music_stop, music_play and music_set_position on the frame thread       *)
(* against the audio callback, with a module loaded.  The frame thread is  *)
(* at "stopped" from the return of music_stop to the next music_play or    *)
(* music_set_position.                                                     *)
(***************************************************************************)
FrameBetweenCalls == frame_pc[1] \in {"idle", "stopped"}

StopMusic ==
    /\ FrameBetweenCalls
    /\ Commit([music_stop(Cur) EXCEPT !.frame_pc = <<"stopped", 0>>],
              "music_stop", 0)

StopPlay ==
    /\ FrameBetweenCalls
    /\ Commit([music_play(Cur) EXCEPT !.frame_pc = <<"idle", 0>>],
              "music_play", 0)

StopSetPosition ==
    /\ FrameBetweenCalls
    /\ \E report \in DecoderReports :
           Commit([music_set_position(Cur, report[1], report[2])
                       EXCEPT !.frame_pc = <<"idle", 0>>],
                  "music_set_position", report[1])

NextStop ==
    \/ AudioCheck
    \/ AudioRender
    \/ AudioPublish
    \/ StopMusic
    \/ StopPlay
    \/ StopSetPosition

SpecStop == InitMusplus /\ [][NextStop]_vars

(***************************************************************************)
(* ALKU on its own: the music plays, alku_init has loaded horizon file h,  *)
(* and each frame updates the part and presents the picture, while the     *)
(* audio callback publishes the position.                                  *)
(***************************************************************************)
InitAlku ==
    \E h \in HorizonFiles :
        StateIs([alku_init(music_play(music_load(video_init(Boot(0, 0, 0)), TRUE)),
                           TRUE)
                    EXCEPT !.alku.horizon = h])

\* frame() while ALKU is the current part: alku_update, then video_present
AlkuFrame ==
    /\ scroll_calls < MaxScrollCalls
    /\ \E beyond \in Beyond :
           Commit(video_present(alku_update(Cur), beyond), "alku_update", alku.phase)

AlkuMusic ==
    /\ \E report \in AlkuReports :
           Commit(music_audio_callback(Cur, report[1], report[2], report[3], FALSE),
                  "music_audio_callback", 0)

NextAlku ==
    \/ AlkuFrame
    \/ AlkuMusic

SpecAlku == InitAlku /\ [][NextAlku]_vars

(***************************************************************************)
(* Reading the observers.                                                  *)
(***************************************************************************)
\* positions in the event sequence es of the events of one kind
At(es, kind) == {i \in 1..Len(es) : es[i].ev = kind}
\* positions of the events that store state v in a part's state field
StateAt(es, p, v) == {i \in 1..Len(es) : es[i] = Ev("state", p, v)}
\* the registered parts
Registered == {s_registry[i] : i \in 1..Len(s_registry)}
RunningParts == {p \in Registered : part_state[p] = SR_PART_STATE_RUNNING}

(***************************************************************************)
(* Claims about the interrupt server (SpecDis).                            *)
(***************************************************************************)
\* C1: after n >= 0 dis_frame_tick() calls since the frame counter was last
\* consumed or reset, dis_waitb() returns max(n, 1) and leaves the counter 0.
C1_WaitbReturnsTicks ==
    [][op'[1] = "dis_waitb" => (ret' = Max(ticks, 1) /\ frame_counter' = 0)]_vars

C1_Witness == op[1] = "dis_waitb" /\ ret >= 2 /\ frame_counter = 0

Cleared == frame_counter = 0 /\ total_frames = 0 /\ exit_flag = 0

\* C6 as stated: after dis_reset() and equally after dis_version() the counters
\* and the exit flag are 0 and all three copper slots are empty.
C6_Original ==
    op[1] \in {"dis_reset", "dis_version"} => (Cleared /\ copper = NoCopper)

\* C6 amended: dis_reset() and dis_version() both zero frameCounter, totalFrames
\* and exitRequested; dis_reset() also empties the three copper slots, while
\* dis_version() leaves every copper slot as it was.
C6_ResetAndVersion ==
    [][/\ op'[1] = "dis_reset" => (Cleared' /\ copper' = NoCopper)
       /\ op'[1] = "dis_version" => (Cleared' /\ copper' = copper)]_vars

C6_Witness ==
    /\ op[1] = "dis_version" /\ Cleared
    /\ \A i \in 0..(DIS_COPPER_COUNT - 1) : copper[i] # NULL

(***************************************************************************)
(* Claims about sync points (SpecSync).                                    *)
(***************************************************************************)
\* C2: within one part's lifetime (no dis_reset/dis_version in between) every
\* dis_sync() result is >= the result of the dis_sync() call before it,
\* whatever the audio side does to position, order and the playing flag.
C2_SyncNeverDecreases ==
    [][(op'[1] = "dis_sync" /\ last_sync >= 0) => ret' >= last_sync]_vars

(***************************************************************************)
(* Claims about the part loader (Spec).                                    *)
(***************************************************************************)
\* C3: after any sequence of register, start, tick, render and next calls at
\* most one registered part has state Running.
C3_AtMostOneRunning == Cardinality(RunningParts) <= 1

\* C4: on every successful advance from part N to part N+1 (part_loader_next
\* called directly or from part_loader_tick), part N's cleanup has returned
\* and part N's state is Stopped before part N+1's init is invoked; each of
\* the two callbacks runs once.
C4_CleanupBeforeInit ==
    (op[1] \in {"part_loader_next", "part_loader_tick"} /\ At(events, "init") # {}) =>
        /\ Cardinality(At(events, "cleanup")) = 1
        /\ Cardinality(At(events, "init")) = 1
        /\ \E c \in At(events, "cleanup"), i \in At(events, "init") :
              /\ events[c].a = s_registry[s_current_index]
              /\ events[i].a = s_registry[s_current_index + 1]
              /\ \E st \in StateAt(events, events[c].a, SR_PART_STATE_STOPPED) :
                    c < st /\ st < i

C4_Witness ==
    /\ op[1] = "part_loader_next" /\ ret = 0
    /\ At(events, "init") # {} /\ At(events, "cleanup") # {}

\* C7: part_loader_next() on the last registered part runs that part's cleanup,
\* returns -1, and leaves is_running 0, current NULL and get_index -1, with no
\* init and no transition callback invoked.
C7_NextAtEnd ==
    [][(/\ op'[1] = "part_loader_next"
        /\ s_running # 0
        /\ s_current_index = Len(s_registry) - 1) =>
            /\ ret' = -1
            /\ \E c \in At(events', "cleanup") :
                  events'[c].a = s_registry[s_current_index + 1]
            /\ Cardinality(At(events', "cleanup")) = 1
            /\ At(events', "init") = {}
            /\ At(events', "transition_cb") = {}
            /\ part_loader_is_running(Cur)' = 0
            /\ part_loader_current(Cur)' = NULL
            /\ part_loader_get_index(Cur)' = -1]_vars

C7_Witness ==
    /\ op[1] = "part_loader_next" /\ ret = -1
    /\ At(events, "cleanup") # {}
    /\ s_transition_callback # NULL
    /\ s_running = 0 /\ Len(s_registry) = MaxRegistered

\* the update callback of the tick that led to events es answered non-zero
UpdateSaidDone(es) == \E u \in At(es, "updated") : es[u].b # 0

\* C8 as stated: whenever the current part's update returns non-zero inside
\* part_loader_tick(), that tick runs one cleanup and one init and raises the
\* current index by exactly one.
C8_Original ==
    [][(op'[1] = "part_loader_tick" /\ UpdateSaidDone(events')) =>
            /\ Cardinality(At(events', "cleanup")) = 1
            /\ Cardinality(At(events', "init")) = 1
            /\ s_current_index' = s_current_index + 1]_vars

\* C8 amended: when the current part is not the last registered part and its
\* update returns non-zero inside part_loader_tick(), that tick runs the
\* current part's cleanup once, the next part's init once and raises the
\* current index by exactly one, leaving the next part Running; and a
\* part_loader_render() call is delivered to the part at the current index.
C8_TickAdvances ==
    [][/\ (/\ op'[1] = "part_loader_tick"
            /\ UpdateSaidDone(events')
            /\ s_current_index + 1 < Len(s_registry)) =>
                /\ Cardinality(At(events', "cleanup")) = 1
                /\ Cardinality(At(events', "init")) = 1
                /\ \A c \in At(events', "cleanup") :
                      events'[c].a = s_registry[s_current_index + 1]
                /\ \A i \in At(events', "init") :
                      events'[i].a = s_registry[s_current_index + 2]
                /\ s_current_index' = s_current_index + 1
                /\ part_state'[s_registry[s_current_index + 2]] = SR_PART_STATE_RUNNING
       /\ (op'[1] = "part_loader_render" /\ events' # <<>>) =>
                /\ Len(events') = 1
                /\ events'[1] = Ev("render", s_registry[s_current_index + 1], 0)]_vars

C8_Witness ==
    /\ op[1] = "part_loader_tick" /\ UpdateSaidDone(events)
    /\ At(events, "init") # {} /\ s_current_index = 1

(***************************************************************************)
(* Claims about the message areas (SpecMsg).                               *)
(***************************************************************************)
MsgPreserving ==
    {"dis_reset", "dis_version", "dis_partstart",
     "part_loader_start", "part_loader_next"}

\* C5: dis_reset(), dis_version(), dis_partstart() and every sequencer
\* transition (part_loader_start, part_loader_next) leave every byte of the
\* four message areas as it was, so bytes a client stored before are read
\* back identical after any sequence of them.
C5_MessageAreasPersist ==
    [][op'[1] \in MsgPreserving => msg_areas' = msg_areas]_vars

C5_Witness ==
    /\ op[1] = "part_loader_next" /\ ret = 0
    /\ At(events, "dis_reset") # {}
    /\ msg_areas[0][0] = 255
    /\ msg_areas[DIS_MSG_AREA_COUNT - 1][DIS_MSG_AREA_SIZE - 1] = 255

(***************************************************************************)
(* Claims about a transition into a part (SpecTransition).                 *)
(***************************************************************************)
\* the last operation entered a part
Entered ==
    \/ op[1] \in {"part_loader_start", "part_loader_next"} /\ ret = 0
    \/ op[1] = "part_loader_tick" /\ At(events, "init") # {}

\* C10: on every transition into a part the transition callback runs, then
\* dis_reset, then the video blanking, then the part's state becomes
\* Initializing, its init runs, and its state becomes Running; and when init
\* is entered both sync counters are 0, the three copper slots are empty, all
\* 256 palette entries are (0,0,0) and the framebuffer is 0 over the whole
\* 320x400 area, in either video mode.
C10_TransitionOrder ==
    Entered =>
        /\ Cardinality(At(events, "init")) = 1
        /\ Len(init_obs) = 1
        /\ \E c \in At(events, "transition_cb"), r \in At(events, "dis_reset"),
              v \in At(events, "clear_video"), i \in At(events, "init") :
              /\ events[i].a = s_registry[s_current_index + 1]
              /\ \E a \in StateAt(events, events[i].a, SR_PART_STATE_INITIALIZING),
                    b \in StateAt(events, events[i].a, SR_PART_STATE_RUNNING) :
                     c < r /\ r < v /\ v < a /\ a < i /\ i < b
        /\ init_obs[1].state = SR_PART_STATE_INITIALIZING
        /\ init_obs[1].frame_counter = 0
        /\ init_obs[1].total_frames = 0
        /\ init_obs[1].copper = NoCopper
        /\ \A k \in 0..767 : init_obs[1].palette[k] = 0
        /\ \A x \in FbProbes : init_obs[1].framebuffer[x] = 0

\* a tick has moved from ALKU, which draws 400 lines in mode X, to the first
\* test part, whose init found mode X still selected
C10_Witness ==
    /\ op[1] = "part_loader_tick" /\ Entered
    /\ Len(init_obs) = 1
    /\ init_obs[1].part = TEST_PART_1
    /\ init_obs[1].mode = VIDEO_MODE_X
    /\ init_obs[1].framebuffer[FB_SIZE - 1] = 0

(***************************************************************************)
(* Claims about the frame driver (SpecMain).                               *)
(***************************************************************************)
\* the last operation was a frame() that got to its tick and render calls
FrameRan == op[1] = "frame" /\ At(events, "part_loader_tick") # {}

\* C9 as stated: in every frame that ticks and renders, as many part updates
\* as part renders are invoked, updates first, also when a transition or the
\* end of the sequence happens inside the tick.
C9_Original ==
    FrameRan =>
        /\ Cardinality(At(events, "update")) = Cardinality(At(events, "render"))
        /\ \A u \in At(events, "update"), r \in At(events, "render") : u < r

\* C9 amended: every frame that ticks and renders invokes exactly one part
\* update, before any render.  If the sequence is still running after the
\* tick, also when the tick moved on to the next part, exactly one render
\* follows, of the part that is then current.  If the update ended the
\* sequence inside the tick, no render is invoked in that frame.
C9_UpdateThenRender ==
    FrameRan =>
        /\ Cardinality(At(events, "update")) = 1
        /\ \A u \in At(events, "update"), r \in At(events, "render") : u < r
        /\ IF s_running = 0
              THEN At(events, "render") = {}
              ELSE /\ Cardinality(At(events, "render")) = 1
                   /\ \A r \in At(events, "render") :
                          events[r].a = s_registry[s_current_index + 1]

C9_Witness ==
    /\ FrameRan
    /\ At(events, "init") # {}
    /\ At(events, "render") # {}
    /\ At(events, "present") # {}

(***************************************************************************)
(* Further claims about the part loader (Spec).                            *)
(***************************************************************************)
\* C11: part_loader_start(i) with i < 0 or i >= part_loader_get_count()
\* returns -1 and changes nothing: the current index, the running flag and
\* every part's state stay as they were, and no transition callback, sync
\* reset, video clear or init is performed.
C11_StartRejects ==
    [][(/\ op'[1] = "part_loader_start"
        /\ (op'[2] < 0 \/ op'[2] >= Len(s_registry))) =>
            /\ ret' = -1
            /\ UNCHANGED <<disVars, seqVars, videoVars>>
            /\ events' = <<>>]_vars

C11_Witness ==
    /\ op[1] = "part_loader_start" /\ op[2] >= Len(s_registry)
    /\ ret = -1 /\ s_running = 1 /\ s_current_index = 0

\* C14: with a transition callback set, a successful part_loader_start(i)
\* invokes it exactly once, with (-1, i), and a successful part_loader_next()
\* from index k invokes it exactly once, with (k, k+1), each time before the
\* target part's init; with the callback NULL it is not invoked.
C14_TransitionCallback ==
    [][/\ (op'[1] = "part_loader_start" /\ ret' = 0) =>
            IF s_transition_callback = NULL
                THEN At(events', "transition_cb") = {}
                ELSE /\ Cardinality(At(events', "transition_cb")) = 1
                     /\ \A c \in At(events', "transition_cb") :
                            /\ events'[c] = Ev("transition_cb", -1, op'[2])
                            /\ \A i \in At(events', "init") : c < i
       /\ (op'[1] = "part_loader_next" /\ ret' = 0) =>
            IF s_transition_callback = NULL
                THEN At(events', "transition_cb") = {}
                ELSE /\ Cardinality(At(events', "transition_cb")) = 1
                     /\ \A c \in At(events', "transition_cb") :
                            /\ events'[c] = Ev("transition_cb", s_current_index,
                                               s_current_index + 1)
                            /\ \A i \in At(events', "init") : c < i]_vars

C14_Witness ==
    /\ op[1] = "part_loader_next" /\ ret = 0
    /\ \E c \in At(events, "transition_cb"), i \in At(events, "init") :
           events[c] = Ev("transition_cb", 0, 1) /\ c < i

\* the sequencer is not running, or the current part is not Running
Idle ==
    \/ s_running = 0
    \/ s_current_index < 0
    \/ s_current_index >= Len(s_registry)
    \/ part_state[s_registry[s_current_index + 1]] # SR_PART_STATE_RUNNING

\* C15: when the sequencer is not running or the current part is not in state
\* Running, part_loader_tick() and part_loader_render() invoke no part
\* callback and change no state; tick does not call dis_waitb, so the frame
\* counter is not consumed and no copper callback fires.
C15_IdleTickIsNoOp ==
    [][(op'[1] \in {"part_loader_tick", "part_loader_render"} /\ Idle) =>
            /\ UNCHANGED <<disVars, seqVars, videoVars, musicVars>>
            /\ events' = <<>>]_vars

C15_Witness ==
    /\ op[1] = "part_loader_tick"
    /\ s_running = 1 /\ s_current_index = 0
    /\ part_state[s_registry[1]] = SR_PART_STATE_STOPPED
    /\ frame_counter > 0 /\ events = <<>>

\* the registration in this step meets neither of the two refusals
Accepted == op'[2] # NULL /\ Len(s_registry) < PART_REGISTRY_MAX

\* C12 as stated: a successful part_loader_register(part) appends the part at
\* the end of the registry and returns the index at which it was stored.
C12_Original ==
    [][(op'[1] = "part_loader_register" /\ Accepted) =>
            /\ s_registry' = Append(s_registry, op'[2])
            /\ ret' = Len(s_registry)]_vars

\* C12 amended: a successful part_loader_register(part) appends the part at
\* the end of the registry and returns 0; the index at which the part was
\* stored is the registry count before the call.
C12_RegisterAppends ==
    [][(op'[1] = "part_loader_register" /\ Accepted) =>
            /\ s_registry' = Append(s_registry, op'[2])
            /\ s_registry'[Len(s_registry) + 1] = op'[2]
            /\ ret' = 0]_vars

C12_Witness ==
    /\ op[1] = "part_loader_register" /\ ret = 0
    /\ Len(s_registry) = 2
    /\ s_registry[1] = ALKU /\ s_registry[2] = TEST_PART_1 /\ op[2] = TEST_PART_1

(***************************************************************************)
(* Claims about the registry's capacity (SpecRegistry).                    *)
(***************************************************************************)
\* C13: part_loader_register returns -1 and leaves the registry and its count
\* unchanged when the part is NULL or 32 parts are registered; the count never
\* exceeds 32, and a registration never overwrites or reorders the entries
\* that are there.
C13_RegistryBounded ==
    [][op'[1] = "part_loader_register" =>
            /\ Len(s_registry') <= PART_REGISTRY_MAX
            /\ \A i \in 1..Len(s_registry) :
                   i <= Len(s_registry') /\ s_registry'[i] = s_registry[i]
            /\ ~Accepted => (ret' = -1 /\ UNCHANGED <<seqVars, disVars, videoVars>>)]_vars

C13_Witness ==
    /\ op = <<"part_loader_register", TEST_PART_2>> /\ ret = -1
    /\ Len(s_registry) = PART_REGISTRY_MAX
    /\ s_registry[1] = ALKU /\ s_registry[PART_REGISTRY_MAX] = TEST_PART_2

(***************************************************************************)
(* Further claims about the interrupt server (SpecDis).                    *)
(***************************************************************************)
\* the sync state other than the copper table
OtherSyncState == <<exit_flag, frame_counter, total_frames, music_frame, msg_areas>>

\* C16: dis_msgarea(i) returns NULL (-1 here) for i < 0 or i > 3 and the
\* buffer of area i, a different one for each i, for 0 <= i <= 3;
\* dis_setcopper(s, f) with s < 0 or s > 2 leaves the three copper slots as
\* they were; and neither call changes any other sync state.
C16_InvalidIndices ==
    [][/\ op'[1] = "dis_msgarea" =>
            /\ ret' = IF op'[2] \in 0..(DIS_MSG_AREA_COUNT - 1) THEN op'[2] ELSE -1
            /\ UNCHANGED <<OtherSyncState, copper>>
       /\ op'[1] = "dis_setcopper" =>
            /\ UNCHANGED OtherSyncState
            /\ op'[2] \notin 0..(DIS_COPPER_COUNT - 1) => copper' = copper
            /\ \A i \in 0..(DIS_COPPER_COUNT - 1) : i # op'[2] => copper'[i] = copper[i]]_vars

C16_Witness ==
    /\ op = <<"dis_setcopper", DIS_COPPER_COUNT>>
    /\ copper[0] # NULL /\ copper[1] = NULL /\ copper[DIS_COPPER_COUNT - 1] # NULL
    /\ frame_counter > 0

\* the slots that hold a routine
Installed == {i \in 0..(DIS_COPPER_COUNT - 1) : copper[i] # NULL}

\* C17: every dis_waitb() call invokes each installed copper routine exactly
\* once, in slot order 0, 1, 2, skipping the empty slots (so a slot that
\* dis_setcopper set to NULL is not invoked), and does so before the frame
\* counter is read and zeroed: each routine still finds the counter's value.
C17_CopperOrder ==
    [][op'[1] = "dis_waitb" =>
            /\ Len(events') = Cardinality(Installed)
            /\ \A k \in 1..Len(events') :
                   /\ events'[k].ev = "copper"
                   /\ events'[k].a \in Installed
                   /\ events'[k].b = frame_counter
                   /\ \A j \in 1..(k - 1) : events'[j].a < events'[k].a
            /\ copper' = copper
            /\ frame_counter' = 0]_vars

C17_Witness ==
    /\ op[1] = "dis_waitb" /\ ret >= 2
    /\ events = <<Ev("copper", 0, ret), Ev("copper", DIS_COPPER_COUNT - 1, ret)>>
    /\ copper[1] = NULL

(***************************************************************************)
(* Further claims about the frame driver (SpecMain).                       *)
(***************************************************************************)
\* C18: once the cancel key has set the exit flag the request is not lost:
\* no input event delivered afterwards, the advance key included, clears it,
\* and the next frame() finds dis_exit() = 1 and requests quit without
\* running the sequencer's tick or render.
C18_ExitNotLost ==
    [][/\ (op'[1] = "event" /\ exit_flag = 1) => exit_flag' = 1
       /\ (op'[1] = "frame" /\ exit_flag = 1) =>
            /\ quit' = 1
            /\ At(events', "update") = {}
            /\ At(events', "render") = {}]_vars

(***************************************************************************)
(* Further claims about the sync point (SpecSync).                         *)
(***************************************************************************)
\* C20: dis_sync() always returns a value in 0..8, whatever total_frames and
\* the music state are: playing or not, any position, any order number.
C20_SyncInRange ==
    /\ dis_sync_value(Cur) \in 0..SYNC_POINT_MAX
    /\ op[1] = "dis_sync" => ret \in 0..SYNC_POINT_MAX

C20_Witness ==
    /\ op[1] = "dis_sync" /\ ret = SYNC_POINT_MAX
    /\ ~playing
    /\ total_frames > SYNC_FRAMES_FIRST + SYNC_POINT_MAX * SYNC_FRAMES_PER_POINT

(***************************************************************************)
(* Claims about the two threads (SpecAudio).                               *)
(***************************************************************************)
\* C19: the audio callback never renders from or queries a module after the
\* frame thread has destroyed it: in every interleaving with music_load,
\* music_unload and music_shutdown, each use of the module by the callback
\* finds a live module.
C19_NoUseAfterDestroy ==
    \A k \in At(events, "module_use") : events[k].a = MODULE_LOADED


\* C21: while no music is playing, dis_sync() is a function of total_frames
\* alone: 0 below 1080 frames and min(8, 1 + (total_frames - 1080) / 600) from
\* there on, whatever position, order and row the player still holds; and a
\* frame tick taken while no music is playing never lowers it.
C21_FrameFallback ==
    [][/\ (op'[1] = "dis_sync" /\ ~playing') =>
            /\ ret' = IF total_frames' < 1080 THEN 0
                      ELSE Min(8, 1 + (total_frames' - 1080) \div 600)
            /\ \A report \in DecoderReports :
                   dis_sync_value([Cur EXCEPT !.current_order = report[1],
                                              !.current_row = report[2],
                                              !.position_seconds_x1000 = report[3]])'
                       = ret'
       /\ (op'[1] = "dis_frame_tick" /\ ~playing /\ ~playing') =>
            dis_sync_value(Cur)' >= dis_sync_value(Cur)]_vars

C21_Witness ==
    /\ op[1] = "dis_sync" /\ ret = 1
    /\ ~playing /\ mod = MODULE_LOADED
    /\ position_seconds_x1000 >= 15500 /\ current_order >= 5
    /\ total_frames = 1080


\* C22: dis_musplus() returns order * 64 + row of a position the player held
\* at one instant between the call and the return: never the order of one
\* published position with the row of another.
C22_MusplusUntorn ==
    op[1] = "dis_musplus" =>
        \E pos \in held : ret = pos[1] * 64 + pos[2]


(***************************************************************************)
(* Claims about the palette, the RGBA table and the conversion             *)
(* (SpecPalette, SpecVideo).                                               *)
(***************************************************************************)
\* the expansion of a 6-bit channel value, by arithmetic
Expand6(v) == 4 * v + v \div 16

\* the RGBA table that belongs to palette pal
LutOf(pal) ==
    [i \in 0..255 |-> <<rgba_channel(pal[i * 3 + 0]), rgba_channel(pal[i * 3 + 1]),
                        rgba_channel(pal[i * 3 + 2]), 255>>]

PaletteMutators == {"video_set_palette", "video_set_palette_range", "video_set_color"}

\* C23: in every state, video_set_color(i, r, g, b) with r, g, b in 0..63
\* followed by video_get_palette yields r, g, b at bytes 3i, 3i+1, 3i+2 and
\* the 765 other bytes as video_get_palette yielded them before the call.
C23_SetColorRoundTrip ==
    \A index \in ColourIndices \cup {1, 254} :
        \A c \in {x \in Colours : \A j \in 1..3 : x[j] \in 0..63} :
            LET before == video_get_palette(Cur)
                after == video_get_palette(video_set_color(Cur, index, c[1], c[2], c[3]))
            IN  /\ after[3 * index] = c[1]
                /\ after[3 * index + 1] = c[2]
                /\ after[3 * index + 2] = c[3]
                /\ \A k \in 0..767 :
                       k \notin {3 * index, 3 * index + 1, 3 * index + 2}
                           => after[k] = before[k]

C23_Witness ==
    /\ op = <<"video_set_color", 255>>
    /\ <<palette[765], palette[766], palette[767]>> = <<0, 32, 63>>
    /\ <<palette[0], palette[1], palette[2]>> = <<63, 1, 31>>
    /\ palette[3] = 0 /\ palette[764] = 63

\* C24: for every 6-bit value v the channel placed in the RGBA table is
\* (v << 2) | (v >> 4) = 4v + v / 16: it lies in 0..255, is strictly increasing
\* in v, and is 0 for 0, 130 for 32 and 255 for 63; a table that is up to date
\* holds it for every 6-bit palette byte.
C24_Expansion ==
    /\ \A v \in 0..63 :
           /\ rgba_channel(v) = Expand6(v)
           /\ rgba_channel(v) \in 0..255
           /\ v < 63 => rgba_channel(v) < rgba_channel(v + 1)
    /\ rgba_channel(0) = 0 /\ rgba_channel(32) = 130 /\ rgba_channel(63) = 255
    /\ palette_dirty = 0 =>
           \A i \in 0..255, j \in 0..2 :
               palette[i * 3 + j] \in 0..63 =>
                   rgba_lut[i][j + 1] = Expand6(palette[i * 3 + j])

C24_Witness ==
    /\ op[1] = "video_present" /\ palette_dirty = 0
    /\ rgba_lut[255] = <<0, 130, 255, 255>>

\* C25: whatever bytes the palette holds, an up-to-date RGBA table holds for
\* each of them the expansion of a 6-bit value: of 63 for a byte above 63, or
\* of the byte's low 6 bits.
C25_ChannelsClamped ==
    palette_dirty = 0 =>
        \A i \in 0..255, j \in 0..2 :
            LET p == palette[i * 3 + j]
            IN  rgba_lut[i][j + 1] \in {Expand6(Min(p, 63)), Expand6(p % 64)}

\* C26: every palette mutator sets the dirty flag; while the flag is clear the
\* RGBA table is the table of the current palette; video_present rebuilds the
\* table once when the flag is set and not at all when it is clear, and
\* leaves the flag clear and the table that of the palette.
C26_DirtyProtocol ==
    /\ [](palette_dirty = 0 => rgba_lut = LutOf(palette))
    /\ [][/\ op'[1] \in PaletteMutators => palette_dirty' = 1
          /\ op'[1] = "video_present" =>
                /\ Cardinality(At(events', "rebuild_rgba_lut"))
                       = (IF palette_dirty # 0 THEN 1 ELSE 0)
                /\ palette' = palette
                /\ palette_dirty' = 0
                /\ rgba_lut' = LutOf(palette')]_vars

C26_Witness ==
    /\ op[1] = "video_present"
    /\ At(events, "rebuild_rgba_lut") # {}
    /\ palette[765] = 60 /\ palette[4] = 4
    /\ rgba_lut[1] = <<12, 16, 20, 255>>

\* C27: video_set_mode(m) leaves the framebuffer, the palette, the start
\* offset and hscroll as they were; it stores m when m is VIDEO_MODE_13H or
\* VIDEO_MODE_X and leaves the mode as it was otherwise, so the mode is
\* always one of the two.
C27_SetModeOnlyMode ==
    /\ [](mode \in {VIDEO_MODE_13H, VIDEO_MODE_X})
    /\ [][op'[1] = "video_set_mode" =>
             /\ framebuffer' = framebuffer /\ palette' = palette
             /\ start_offset' = start_offset /\ hscroll' = hscroll
             /\ mode' = IF op'[2] \in {VIDEO_MODE_13H, VIDEO_MODE_X}
                           THEN op'[2] ELSE mode]_vars

C27_Witness ==
    /\ op = <<"video_set_mode", 2>>
    /\ mode = VIDEO_MODE_X
    /\ start_offset # 0 /\ hscroll # 0
    /\ framebuffer = Drawing /\ palette[0] = 63

\* C28: after video_present, every pixel i of the active region (320 x 200
\* in mode 13h, 320 x 400 in mode X) holds the RGBA table's entry for
\* framebuffer[start_offset + i], a byte of the framebuffer.
C28_StagingMatches ==
    op[1] = "video_present" =>
        \A i \in FbProbes :
            i < VIDEO_WIDTH * (IF mode = VIDEO_MODE_X THEN VIDEO_HEIGHT_X
                                                      ELSE VIDEO_HEIGHT_13H)
                => /\ start_offset + i < FB_SIZE
                   /\ rgba_staging[i] = rgba_lut[framebuffer[start_offset + i]]


(***************************************************************************)
(* Claims about a part's life cycle (Spec) and the frame counts (SpecMain).*)
(***************************************************************************)
StateCycle ==
    {<<SR_PART_STATE_STOPPED, SR_PART_STATE_INITIALIZING>>,
     <<SR_PART_STATE_INITIALIZING, SR_PART_STATE_RUNNING>>,
     <<SR_PART_STATE_RUNNING, SR_PART_STATE_CLEANUP>>,
     <<SR_PART_STATE_CLEANUP, SR_PART_STATE_STOPPED>>}

\* the state part p was in before the store recorded at position k of es
StateBefore(pre, es, k) ==
    LET earlier == {j \in 1..(k - 1) : es[j].ev = "state" /\ es[j].a = es[k].a}
    IN  IF earlier = {} THEN pre[es[k].a]
        ELSE es[CHOOSE j \in earlier : \A i \in earlier : i <= j].b

\* the state the last recorded store of es left part p in
StateAfter(pre, es, p) ==
    LET stores == {j \in 1..Len(es) : es[j].ev = "state" /\ es[j].a = p}
    IN  IF stores = {} THEN pre[p]
        ELSE es[CHOOSE j \in stores : \A i \in stores : i <= j].b

\* C29: every store to a part's state field that changes it goes one step
\* along Stopped -> Initializing -> Running -> Cleanup -> Stopped, whether
\* the sequencer or a callback stores it.
C29_StateCycle ==
    [][/\ \A k \in At(events', "state") :
              \/ StateBefore(part_state, events', k) = events'[k].b
              \/ <<StateBefore(part_state, events', k), events'[k].b>> \in StateCycle
       /\ \A p \in Parts :
              \/ StateAfter(part_state, events', p) = part_state'[p]
              \/ <<StateAfter(part_state, events', p), part_state'[p]>> \in StateCycle]_vars


\* C30: in the frame loop total_frames counts the dis_frame_tick() calls since
\* the current part was started: a transition leaves it 0, a frame without a
\* transition adds one, nothing else changes it; and at each update the frame
\* counts passed to the part's update so far add up to total_frames.
C30_FramesCounted ==
    [][/\ At(events', "dis_reset") # {} => total_frames' = 0
       /\ (At(events', "dis_reset") = {} /\ At(events', "init") = {}) =>
              total_frames' = total_frames + (IF op'[1] = "frame" THEN 1 ELSE 0)
       /\ \A k \in At(events', "update") :
              /\ events'[k + 1].ev = "update_frames"
              /\ DeltasUpTo(delta_sum, events', k) = events'[k + 1].a]_vars

C30_Witness ==
    /\ op[1] = "frame"
    /\ At(events, "update") # {} /\ At(events, "init") = {}
    /\ s_current_index = 1
    /\ total_frames = 2 /\ delta_sum = 2


(***************************************************************************)
(* Claims about the frame loop (SpecMain, SpecLoop).                       *)
(***************************************************************************)
\* C31: in single-part mode only the part the run was started with is ever
\* updated or rendered, and a frame is presented only while that part is
\* current.
C31_SinglePartOnly ==
    (g_single_part # 0 /\ app = "run" /\ g_start_part \in 0..(Len(s_registry) - 1)) =>
        /\ \A k \in At(events, "update") \cup At(events, "render") :
               events[k].a = s_registry[g_start_part + 1]
        /\ At(events, "present") # {} => s_current_index = g_start_part


\* the init and cleanup callbacks of the parts of registry reg, each once, in
\* registry order
LifeCycle(reg) ==
    [i \in 1..(2 * Len(reg)) |->
        Ev(IF i % 2 = 1 THEN "init" ELSE "cleanup", reg[(i + 1) \div 2], 0)]

\* C32: after part_loader_start(0), with every update returning non-zero
\* sooner or later, repeated frame callbacks reach part_loader_is_running()
\* = 0, and whenever the sequencer has stopped every registered part has had
\* its init and its cleanup called exactly once, in registry order.
C32_SequenceEnds ==
    /\ <>(part_loader_is_running(Cur) = 0)
    /\ [](part_loader_is_running(Cur) = 0 => calls = LifeCycle(s_registry))

C32_Witness ==
    /\ op[1] = "frame" /\ quit = 1
    /\ s_running = 0
    /\ Len(calls) = 6 /\ calls[5] = Ev("init", TEST_PART_2, 0)

\* C33: a frame callback that does not request quit calls dis_frame_tick,
\* part_loader_tick, part_loader_render and video_present, each exactly once
\* and in this order; a frame that finds exit requested or the sequencer not
\* running calls dis_frame_tick only and then requests quit.
C33_FrameOrder ==
    [][op'[1] = "frame" =>
          /\ At(events', "quit") = {} =>
                 \E d, t, r, p \in 1..Len(events') :
                     /\ At(events', "dis_frame_tick") = {d}
                     /\ At(events', "part_loader_tick") = {t}
                     /\ At(events', "part_loader_render") = {r}
                     /\ At(events', "present") = {p}
                     /\ d < t /\ t < r /\ r < p
          /\ (exit_flag # 0 \/ s_running = 0) =>
                 /\ events' = <<Ev("dis_frame_tick", 0, 0), Ev("quit", 0, 0)>>
                 /\ quit' = 1]_vars

\* a frame in which the part was updated and rendered and the picture
\* presented
C33_Witness ==
    /\ op[1] = "frame" /\ quit = 0
    /\ At(events, "update") # {} /\ At(events, "render") # {}
    /\ At(events, "present") # {}

\* a frame that found the sequencer stopped and asked to quit
C33_WitnessQuit ==
    /\ op[1] = "frame" /\ quit = 1 /\ s_running = 0
    /\ events = <<Ev("dis_frame_tick", 0, 0), Ev("quit", 0, 0)>>

(***************************************************************************)
(* Claims about music_stop (SpecStop).                                     *)
(***************************************************************************)
\* C34: from the return of music_stop with a module loaded until the next
\* music_play or music_set_position, music_is_playing() is false and the
\* order, row and position queries return 0, whatever the audio callback
\* that was running during the stop does.
C34_StopResets ==
    frame_pc = <<"stopped", 0>> =>
        /\ ~music_is_playing(Cur)
        /\ music_get_current_order(Cur) = 0
        /\ music_get_current_row(Cur) = 0
        /\ music_get_position_ms(Cur) = 0


(***************************************************************************)
(* Claims about ALKU (SpecAlku).                                           *)
(***************************************************************************)
\* C35: the picture fade-in reaches the horizon palette: when the 128th
\* tick_fade with the picin increments has run from fadepal = fade1,
\* tick_fade reports the fade complete and every fadepal component equals
\* the component of the base palette.
C35_FadeInReachesPalette ==
    (op = <<"alku_update", PHASE_HORIZON>> /\ alku.fade_pos = 128) =>
        /\ \A k \in At(events, "tick_fade") : events[k].b = 0
        /\ \A i \in 0..(ALKU_PALETTE_SIZE - 1) :
               alku.fadepal[i] = alku_palette(alku.horizon)[i]

\* C36: in the horizon phase and in the credits phase the horizon scrolls on
\* every 9th call of do_scroll and on no other call: after n calls scroll_pos
\* has grown from 1 by n div 9 and the page has toggled as often.
C36_ScrollEveryNinth ==
    alku.phase \in {PHASE_HORIZON, PHASE_CREDITS} =>
        /\ alku.scroll_pos = 1 + scroll_calls \div ALKU_SCROLL_RATE
        /\ alku.page = (1 + scroll_calls \div ALKU_SCROLL_RATE) % 2

\* C37: in every reachable state the window video_present converts lies
\* inside the framebuffer: startOffset + 320 x activeHeight <= 320 x 400.
C37_PresentInBounds ==
    initialized = 1 =>
        start_offset + VIDEO_WIDTH * (IF mode = VIDEO_MODE_X THEN VIDEO_HEIGHT_X
                                                              ELSE VIDEO_HEIGHT_13H)
            <= FB_SIZE

\* C40: a lerp fade returns 1 on its calls 1..63 and 0 on call 64 and later,
\* every component it writes lies between the src and the dst component, and
\* when it reports completion the video palette equals dst.
C40_LerpFade ==
    \A k \in At(events, "tick_lerp_fade") :
        LET step == events[k].a
            src == AlkuPalette(alku, alku.fade_src)
            dst == AlkuPalette(alku, alku.fade_dst)
        IN  /\ events[k].b = (IF step + 1 < 64 THEN 1 ELSE 0)
            /\ step < 64 =>
                   \A i \in 0..(ALKU_PALETTE_SIZE - 1) :
                       /\ Min(src[i], dst[i]) <= palette[i]
                       /\ palette[i] <= Max(src[i], dst[i])
            /\ (step < 64 /\ events[k].b = 0) => palette = dst


(***************************************************************************)
(* Claims about the sequencer's queries (SpecQueries).                     *)
(***************************************************************************)
\* C38: in every state reached by init, register, start, tick, next and
\* shutdown, part_loader_is_running() is 1 exactly when the current index is
\* in 0..count-1, exactly when part_loader_current() is not NULL, and
\* part_loader_get_index() is -1 exactly when the sequencer is not running.
C38_QueriesAgree ==
    /\ part_loader_is_running(Cur) \in {0, 1}
    /\ part_loader_is_running(Cur) = 1 <=>
           (0 <= s_current_index /\ s_current_index < part_loader_get_count(Cur))
    /\ part_loader_is_running(Cur) = 1 <=> part_loader_current(Cur) # NULL
    /\ part_loader_get_index(Cur) = -1 <=> part_loader_is_running(Cur) = 0

\* the sequencer was shut down while its second part ran
C38_Witness ==
    /\ op[1] = "part_loader_shutdown"
    /\ s_running = 0 /\ s_registry = <<>> /\ s_current_index = -1
    /\ Ev("cleanup", TEST_PART_1, 0) \in {events[k] : k \in 1..Len(events)}


(***************************************************************************)
(* Claims about a failing init (Spec).                                     *)
(***************************************************************************)
\* the last init callback of part p in es stored Stopped in p's own state
InitFailed(es, p) ==
    \E i \in At(es, "init"), j \in StateAt(es, p, SR_PART_STATE_STOPPED) :
        /\ es[i].a = p /\ i < j
        /\ \A m \in At(es, "init") : es[m].a = p => m <= i

\* C39: a part whose init reported failure by storing Stopped in its own
\* state is not put in Running by the sequencer, and the sequencer's next
\* operation calls neither its update nor its render.
C39_FailedInitNotRun ==
    /\ [](\A p \in Parts : InitFailed(events, p) => part_state[p] # SR_PART_STATE_RUNNING)
    /\ [][\A p \in Parts : InitFailed(events, p) =>
              \A k \in At(events', "update") \cup At(events', "render") :
                  events'[k].a # p]_vars

====
